---------------------------- MODULE Spec2Model ----------------------------
(***************************************************************************)
(* A model of the Solana-Mini node: the System program, the SVM executor,  *)
(* the Bank's signature check, the Proof-of-History generator and the RPC  *)
(* submission pipeline with its two mutexes and the ticker thread.         *)
(*                                                                         *)
(* Byte strings are sequences of integers.  A concrete byte is a value in  *)
(* 0..ByteBase-1 (ByteBase stands for 256).  A SHA-256 digest and an       *)
(* Ed25519 signature are opaque byte blocks: they are written as bracketed *)
(* terms of negative markers around the bytes they were computed from, so  *)
(* that two digests (signatures) are equal exactly when their inputs are.  *)
(***************************************************************************)
EXTENDS Integers, Sequences, FiniteSets, TLC

VARIABLES
    overflow_checks, \* build profile: TRUE = arithmetic overflow panics, FALSE = it wraps
    db,              \* AccountsDB.accounts : Pubkey -> AccountSharedData
    vm,              \* the last svm::execute call: its input, the store before, its outcome
    poh,             \* PohGenerator
    poh_log,         \* the calls made on the generator so far
    bank,            \* the last bank::verify_signatures call
    pc,              \* position of every submission thread in handle_transfer
    req,             \* per submission thread: the parsed request and the transaction built
    db_lock,         \* Mutex<AccountsDB>: the threads holding a guard
    poh_lock,        \* Mutex<PohGenerator>: the threads holding a guard
    ticker,          \* position of the ticker thread and the ticks it made
    node_log         \* the transactions executed, in order; requests taken; process ended

vars == <<overflow_checks, db, vm, poh, poh_log, bank, pc, req, db_lock, poh_lock,
          ticker, node_log>>

-----------------------------------------------------------------------------
(* Bounds of the model *)

\* number of values of a byte (stands for 256); u16/u32/u64 are 2/4/8 such bytes
ByteBase == 4

\* PoH specification: longest ledger, and largest hashes_per_tick
MaxEntries == 3
MaxHashesPerTick == 2

-----------------------------------------------------------------------------
(* Integer widths and byte helpers *)

RECURSIVE Pow(_, _)
Pow(b, e) == IF e = 0 THEN 1 ELSE b * Pow(b, e - 1)

U8Mod  == ByteBase
U16Mod == Pow(ByteBase, 2)
U32Mod == Pow(ByteBase, 4)
U64Mod == Pow(ByteBase, 8)
U64Max == U64Mod - 1
\* isize::MAX, the largest capacity a Vec<u8> can be asked for
IsizeMax == (U64Mod \div 2) - 1


\* the most significant byte first
RECURSIVE from_be_bytes(_)
from_be_bytes(b) ==
    IF b = <<>> THEN 0 ELSE Head(b) * ByteBase ^ (Len(b) - 1) + from_be_bytes(Tail(b))

RECURSIVE from_le_bytes(_)
from_le_bytes(b) ==
    IF b = <<>> THEN 0 ELSE Head(b) + ByteBase * from_le_bytes(Tail(b))

RECURSIVE to_le_bytes(_, _)
to_le_bytes(n, width) ==
    IF width = 0 THEN <<>>
    ELSE <<n % ByteBase>> \o to_le_bytes(n \div ByteBase, width - 1)

Zeros(n) == [i \in 1..n |-> 0]

\* data[a..b] of a Rust slice (0-based, b exclusive)
Slice(s, a, b) == SubSeq(s, a + 1, b)

\* F(v), with v computed once however often F refers to it
Bind(v, F(_)) == CHOOSE r \in {F(x) : x \in {v}} : TRUE

RECURSIVE Flatten(_)
Flatten(ss) == IF ss = <<>> THEN <<>> ELSE Head(ss) \o Flatten(Tail(ss))

-----------------------------------------------------------------------------
(* account.rs *)

PUBKEY_BYTES == 32
SIGNATURE_BYTES == 64

from_byte(b) == [i \in 1..PUBKEY_BYTES |-> IF i = 1 THEN b ELSE 0]

SYSTEM_PROGRAM_ID == Zeros(PUBKEY_BYTES)

AccountSharedData(lamports, data, owner) ==
    [lamports |-> lamports, data |-> data, owner |-> owner,
     executable |-> FALSE, rent_epoch |-> 0]

\* AccountSharedData::default()
DefaultAccount == AccountSharedData(0, <<>>, SYSTEM_PROGRAM_ID)

-----------------------------------------------------------------------------
(* accounts_db.rs *)

AccountsDB_new == << >>

contains(d, pubkey) == pubkey \in DOMAIN d

\* a load that makes up one lamport for a missing address
load_or_one(d, pubkey) ==
    IF contains(d, pubkey) THEN d[pubkey] ELSE AccountSharedData(1, <<>>, SYSTEM_PROGRAM_ID)

\* load(..).cloned().unwrap_or_default() as used by the SVM
load_or_default(d, pubkey) == IF contains(d, pubkey) THEN d[pubkey] ELSE DefaultAccount

\* Option<&AccountSharedData>
None == <<>>
Some(account) == <<account>>

load(d, pubkey) == IF pubkey \in DOMAIN d THEN Some(d[pubkey]) ELSE None

\* a store that keeps the account already held at the address
store_if_absent(d, pubkey, account) ==
    [k \in (DOMAIN d) \cup {pubkey} |-> IF k \in DOMAIN d THEN d[k] ELSE account]

store(d, pubkey, account) ==
    [k \in (DOMAIN d) \cup {pubkey} |-> IF k = pubkey THEN account ELSE d[k]]

delete(d, pubkey) == [k \in (DOMAIN d) \ {pubkey} |-> d[k]]

len(d) == Cardinality(DOMAIN d)

-----------------------------------------------------------------------------
(* programs/system.rs *)

NoInstruction == [type |-> "None", lamports |-> 0, space |-> 0, owner |-> <<>>]

DecodeErr(e, disc) == [ok |-> FALSE, error |-> e, disc |-> disc, ix |-> NoInstruction]
DecodeOk(ix) == [ok |-> TRUE, error |-> "", disc |-> 0, ix |-> ix]

CreateAccount(lamports, space, owner) ==
    [type |-> "CreateAccount", lamports |-> lamports, space |-> space, owner |-> owner]
Transfer(lamports) ==
    [type |-> "Transfer", lamports |-> lamports, space |-> 0, owner |-> <<>>]
Assign(owner) ==
    [type |-> "Assign", lamports |-> 0, space |-> 0, owner |-> owner]

decode(data) ==
    IF Len(data) < 4 THEN DecodeErr("InvalidInstructionData", 0)
    ELSE LET discriminator == from_le_bytes(Slice(data, 0, 4)) IN
         CASE discriminator = 0 ->
                IF Len(data) < 52 THEN DecodeErr("InvalidInstructionData", 0)
                ELSE DecodeOk(CreateAccount(from_le_bytes(Slice(data, 4, 12)),
                                            from_le_bytes(Slice(data, 12, 20)),
                                            Slice(data, 20, 52)))
           [] discriminator = 2 ->
                IF Len(data) < 12 THEN DecodeErr("InvalidInstructionData", 0)
                ELSE DecodeOk(Transfer(from_le_bytes(Slice(data, 4, 12))))
           [] discriminator = 8 ->
                IF Len(data) < 36 THEN DecodeErr("InvalidInstructionData", 0)
                ELSE DecodeOk(Assign(Slice(data, 4, 36)))
           [] OTHER -> DecodeErr("UnknownInstruction", discriminator)

\* The outcome of process: Ok with the mutated slice, a SystemProgramError with
\* the slice as it was, or an abort ("Panic") of the thread.
ProcessOut(res, accounts) == [res |-> res, accounts |-> accounts]

\* u64 `a + b`: panics under overflow checks, wraps without them.
AddOverflows(a, b) == a + b > U64Max
WrappingAdd(a, b) == (a + b) % U64Mod

process_CreateAccount(ix, accounts) ==
    IF Len(accounts) < 2 THEN ProcessOut("NotEnoughAccounts", accounts)
    ELSE IF accounts[2].lamports > 0 \/ accounts[2].data # <<>>
         THEN ProcessOut("AccountAlreadyInUse", accounts)
    ELSE IF accounts[1].owner # SYSTEM_PROGRAM_ID
         THEN ProcessOut("AccountNotOwnedBySystem", accounts)
    ELSE IF accounts[1].lamports < ix.lamports
         THEN ProcessOut("InsufficientFunds", accounts)
    ELSE IF ix.space > IsizeMax
         THEN ProcessOut("Panic", accounts)   \* Vec::resize: capacity overflow
    ELSE LET debited == [accounts EXCEPT ![1].lamports = accounts[1].lamports - ix.lamports]
         IN  ProcessOut("Ok",
                 [debited EXCEPT ![2].lamports = ix.lamports,
                                 ![2].owner = ix.owner,
                                 ![2].data = Zeros(ix.space)])

process_Transfer(ix, accounts) ==
    IF Len(accounts) < 2 THEN ProcessOut("NotEnoughAccounts", accounts)
    ELSE IF accounts[1].owner # SYSTEM_PROGRAM_ID
         THEN ProcessOut("AccountNotOwnedBySystem", accounts)
    ELSE IF accounts[1].lamports < ix.lamports
         THEN ProcessOut("InsufficientFunds", accounts)
    ELSE LET from_lamports == accounts[1].lamports - ix.lamports
             to_lamports   == WrappingAdd(accounts[2].lamports, ix.lamports)
         IN  IF AddOverflows(accounts[2].lamports, ix.lamports) /\ overflow_checks
             THEN ProcessOut("Panic", accounts)
             ELSE ProcessOut("Ok",
                     [[accounts EXCEPT ![1].lamports = from_lamports]
                                EXCEPT ![2].lamports = to_lamports])

process_Assign(ix, accounts) ==
    IF Len(accounts) < 1 THEN ProcessOut("NotEnoughAccounts", accounts)
    ELSE IF accounts[1].owner # SYSTEM_PROGRAM_ID
         THEN ProcessOut("AccountNotOwnedBySystem", accounts)
    ELSE ProcessOut("Ok", [accounts EXCEPT ![1].owner = ix.owner])

process(ix, accounts) ==
    CASE ix.type = "CreateAccount" -> process_CreateAccount(ix, accounts)
      [] ix.type = "Transfer"      -> process_Transfer(ix, accounts)
      [] ix.type = "Assign"        -> process_Assign(ix, accounts)

-----------------------------------------------------------------------------
(* types/transaction.rs *)

MessageHeader(s, rs, ru) ==
    [num_required_signatures |-> s,
     num_readonly_signed_accounts |-> rs,
     num_readonly_unsigned_accounts |-> ru]

CompiledInstruction(program_id_index, accounts, data) ==
    [program_id_index |-> program_id_index, accounts |-> accounts, data |-> data]

Message(header, account_keys, recent_blockhash, instructions) ==
    [header |-> header, account_keys |-> account_keys,
     recent_blockhash |-> recent_blockhash, instructions |-> instructions]

\* a usize result, or the panic of an overflow-checked build
UsizeOk(value) == [kind |-> "Ok", value |-> value]
UsizePanic == [kind |-> "Panic", value |-> 0]

\* a - b on usize (64 bits): wraps or panics below zero, as the build decides
usize_sub(a, b) ==
    IF a >= b THEN UsizeOk(a - b)
    ELSE IF overflow_checks THEN UsizePanic
    ELSE UsizeOk(a - b + U64Mod)

\* a bool result, or the panic of an overflow-checked build
BoolOk(value) == [kind |-> "Ok", value |-> value]
BoolPanic == [kind |-> "Panic", value |-> FALSE]

is_signer(message, index) == index < message.header.num_required_signatures

\* a classification that takes every non-signer for writable
is_writable_no_tail(message, index) ==
    LET num_signers == message.header.num_required_signatures
        bound == usize_sub(num_signers, message.header.num_readonly_signed_accounts)
    IN  IF index < num_signers
        THEN IF bound.kind = "Panic" THEN BoolPanic ELSE BoolOk(index < bound.value)
        ELSE BoolOk(index < Len(message.account_keys))

is_writable(message, index) ==
    LET num_signers == message.header.num_required_signatures
        num_readonly_signed == message.header.num_readonly_signed_accounts
        num_readonly_unsigned == message.header.num_readonly_unsigned_accounts
        total == Len(message.account_keys)
        bound == IF index < num_signers
                 THEN usize_sub(num_signers, num_readonly_signed)
                 ELSE usize_sub(total, num_readonly_unsigned)
    IN  IF bound.kind = "Panic" THEN BoolPanic ELSE BoolOk(index < bound.value)

Transaction(message, signatures) == [signatures |-> signatures, message |-> message]

-----------------------------------------------------------------------------
(* runtime/svm.rs *)

SvmOk == [kind |-> "Ok", instruction |-> -1, index |-> -1, error |-> "", disc |-> 0]
SvmPanic == [kind |-> "Panic", instruction |-> -1, index |-> -1, error |-> "", disc |-> 0]
InvalidAccountIndex(k, i) ==
    [kind |-> "InvalidAccountIndex", instruction |-> k, index |-> i, error |-> "", disc |-> 0]
UnknownProgram(k) ==
    [kind |-> "UnknownProgram", instruction |-> k, index |-> -1, error |-> "", disc |-> 0]
SystemProgramError(k, e, d) ==
    [kind |-> "SystemProgram", instruction |-> k, index |-> -1, error |-> e, disc |-> d]

\* Step 1: the working set, one account per entry of account_keys
LoadWorkingSet(d, account_keys) ==
    [i \in 1..Len(account_keys) |-> load_or_default(d, account_keys[i])]

\* positions (1-based) of the entries of instruction.accounts that are out of range
BadPositions(accounts, n) == {p \in 1..Len(accounts) : accounts[p] >= n}

\* the last position instead of the first
LastOf(S) == CHOOSE p \in S : \A q \in S : p >= q

FirstOf(S) == CHOOSE p \in S : \A q \in S : p <= q

\* a write-back in which the first position of an index wins
RECURSIVE WriteBackFirstWins(_, _, _, _)
WriteBackFirstWins(working_set, accounts, ix_accounts, pos) ==
    IF pos > Len(accounts) THEN working_set
    ELSE [WriteBackFirstWins(working_set, accounts, ix_accounts, pos + 1)
              EXCEPT ![accounts[pos] + 1] = ix_accounts[pos]]

\* the write-back loop of step 2: positions pos..end of ix_accounts, in order
RECURSIVE WriteBack(_, _, _, _)
WriteBack(working_set, accounts, ix_accounts, pos) ==
    IF pos > Len(accounts) THEN working_set
    ELSE WriteBack([working_set EXCEPT ![accounts[pos] + 1] = ix_accounts[pos]],
                   accounts, ix_accounts, pos + 1)

\* a dispatch that takes every program id for the System program
any_program(program_id) == TRUE

\* `program_id == &SYSTEM_PROGRAM_ID`
is_system_program(program_id) == program_id = SYSTEM_PROGRAM_ID

\* One iteration of the instruction loop: [res, working_set]
ExecuteInstruction(message, working_set, ix_index) ==
    LET instruction == message.instructions[ix_index + 1]
        nkeys == Len(message.account_keys)
        bad == BadPositions(instruction.accounts, Len(working_set))
    IN
    IF instruction.program_id_index >= nkeys
    THEN [res |-> InvalidAccountIndex(ix_index, instruction.program_id_index),
          working_set |-> working_set]
    ELSE IF bad # {}
    THEN [res |-> InvalidAccountIndex(ix_index, instruction.accounts[FirstOf(bad)]),
          working_set |-> working_set]
    ELSE
    LET program_id == message.account_keys[instruction.program_id_index + 1]
        ix_accounts == [p \in 1..Len(instruction.accounts) |->
                            working_set[instruction.accounts[p] + 1]]
    IN
    IF is_system_program(program_id)
    THEN Bind(decode(instruction.data), LAMBDA decoded :
         IF ~decoded.ok
         THEN [res |-> SystemProgramError(ix_index, decoded.error, decoded.disc),
               working_set |-> working_set]
         ELSE Bind(process(decoded.ix, ix_accounts), LAMBDA out :
              CASE out.res = "Ok" ->
                     [res |-> SvmOk,
                      working_set |-> WriteBack(working_set, instruction.accounts,
                                                out.accounts, 1)]
                [] out.res = "Panic" ->
                     [res |-> SvmPanic, working_set |-> working_set]
                [] OTHER ->
                     [res |-> SystemProgramError(ix_index, out.res, 0),
                      working_set |-> working_set]))
    ELSE [res |-> UnknownProgram(ix_index), working_set |-> working_set]

\* an instruction loop that skips an instruction the System program rejects
\* and reports the last rejection once the others have run
RECURSIVE RunInstructionsOn(_, _, _, _)
RunInstructionsOn(message, working_set, ix_index, trace) ==
    IF ix_index >= Len(message.instructions)
    THEN [res |-> SvmOk, working_set |-> working_set, trace |-> trace]
    ELSE Bind(ExecuteInstruction(message, working_set, ix_index), LAMBDA step :
         IF step.res.kind = "SystemProgram"
         THEN Bind(RunInstructionsOn(message, working_set, ix_index + 1, trace),
                   LAMBDA rest : IF rest.res.kind = "Ok"
                                 THEN [rest EXCEPT !.res = step.res]
                                 ELSE rest)
         ELSE IF step.res.kind # "Ok"
         THEN [res |-> step.res, working_set |-> working_set, trace |-> trace]
         ELSE RunInstructionsOn(message, step.working_set, ix_index + 1,
                                Append(trace, step.working_set)))

\* an instruction loop that hands every instruction the accounts as loaded
RECURSIVE RunInstructionsStale(_, _, _, _)
RunInstructionsStale(message, working_set, ix_index, trace) ==
    IF ix_index >= Len(message.instructions)
    THEN [res |-> SvmOk, working_set |-> working_set, trace |-> trace]
    ELSE Bind(ExecuteInstruction(message, trace[1], ix_index), LAMBDA step :
         IF step.res.kind # "Ok"
         THEN [res |-> step.res, working_set |-> working_set, trace |-> trace]
         ELSE RunInstructionsStale(message, step.working_set, ix_index + 1,
                                   Append(trace, step.working_set)))

\* The instruction loop from ix_index on: [res, working_set, trace], trace being
\* the working sets after each instruction that succeeded.
RECURSIVE RunInstructions(_, _, _, _)
RunInstructions(message, working_set, ix_index, trace) ==
    IF ix_index >= Len(message.instructions)
    THEN [res |-> SvmOk, working_set |-> working_set, trace |-> trace]
    ELSE Bind(ExecuteInstruction(message, working_set, ix_index), LAMBDA step :
         IF step.res.kind # "Ok"
         THEN [res |-> step.res, working_set |-> working_set, trace |-> trace]
         ELSE RunInstructions(message, step.working_set, ix_index + 1,
                              Append(trace, step.working_set)))

\* Step 3: store every (account_keys[i], working_set[i]), in order
\* a commit that replaces the store by the working set
CommitReplacing(d, account_keys, working_set, i) ==
    [k \in {account_keys[j] : j \in i..Len(account_keys)} |->
        working_set[CHOOSE j \in i..Len(account_keys) :
                       /\ account_keys[j] = k
                       /\ \A l \in i..Len(account_keys) : account_keys[l] = k => l <= j]]

RECURSIVE Commit(_, _, _, _)
Commit(d, account_keys, working_set, i) ==
    IF i > Len(account_keys) THEN d
    ELSE Commit(store(d, account_keys[i], working_set[i]), account_keys, working_set, i + 1)

\* a commit that does not look at how the instruction loop ended
CommitAlways(d, message, run) == Commit(d, message.account_keys, run.working_set, 1)

\* the store execute leaves behind, given how the instruction loop ended
CommitIfOk(d, message, run) ==
    IF run.res.kind = "Ok" THEN Commit(d, message.account_keys, run.working_set, 1) ELSE d

\* svm::execute: [res, db, trace]
execute(tx, d) ==
    LET message == tx.message
        working_set == LoadWorkingSet(d, message.account_keys)
        run == RunInstructions(message, working_set, 0, <<working_set>>)
    IN  [res |-> run.res, db |-> CommitIfOk(d, message, run), trace |-> run.trace]

-----------------------------------------------------------------------------
(* runtime/poh.rs *)

\* SHA-256 as an ideal hash: the digest of `data` is the block <<-1>> data <<-2>>,
\* equal to another digest exactly when the two inputs are equal.
sha256(data) == <<-1>> \o data \o <<-2>>

Entry(num_hashes, hash, transactions) ==
    [num_hashes |-> num_hashes, hash |-> hash, transactions |-> transactions]

PohGenerator_new(seed, hashes_per_tick) ==
    [current_hash |-> sha256(seed), num_hashes |-> 0, entries |-> <<>>,
     hashes_per_tick |-> hashes_per_tick]

\* `for _ in 0..n { current_hash = sha256(&current_hash) }`
RECURSIVE HashTimes(_, _)
HashTimes(h, n) == IF n <= 0 THEN h ELSE HashTimes(sha256(h), n - 1)

\* tick with the counter kept running instead of reset
tick_cumulative(g) ==
    LET h == HashTimes(g.current_hash, g.hashes_per_tick)
        n == g.num_hashes + g.hashes_per_tick
    IN  [g EXCEPT !.current_hash = h,
                  !.entries = Append(g.entries, Entry(n, h, <<>>)),
                  !.num_hashes = n]

tick(g) ==
    LET h == HashTimes(g.current_hash, g.hashes_per_tick)
        n == g.num_hashes + g.hashes_per_tick
    IN  [g EXCEPT !.current_hash = h,
                  !.entries = Append(g.entries, Entry(n, h, <<>>)),
                  !.num_hashes = 0]

\* the bytes one transaction feeds to the hasher
MixBytes(tx) ==
    IF tx.signatures # <<>> THEN Flatten(tx.signatures)
    ELSE Flatten(tx.message.account_keys)

\* a mix that feeds only the first signature of every signed transaction
hash_first_signatures(transactions) ==
    sha256(Flatten([i \in 1..Len(transactions) |->
        IF transactions[i].signatures # <<>> THEN transactions[i].signatures[1]
        ELSE Flatten(transactions[i].message.account_keys)]))

\* a mix that falls back to the account keys for the whole batch
hash_batch_fallback(transactions) ==
    IF \A i \in 1..Len(transactions) : transactions[i].signatures # <<>>
    THEN sha256(Flatten([i \in 1..Len(transactions) |-> Flatten(transactions[i].signatures)]))
    ELSE sha256(Flatten([i \in 1..Len(transactions) |->
                            Flatten(transactions[i].message.account_keys)]))

hash_transactions(transactions) ==
    sha256(Flatten([i \in 1..Len(transactions) |-> MixBytes(transactions[i])]))

\* a record that writes its entry over the last one of the ledger
record_over_last(g, transactions) ==
    LET tx_hash == hash_transactions(transactions)
        h == sha256(g.current_hash \o tx_hash)
        e == Entry(g.num_hashes + 1, h, transactions)
    IN  [g EXCEPT !.current_hash = h,
                  !.entries = IF g.entries = <<>> THEN <<e>>
                              ELSE [g.entries EXCEPT ![Len(g.entries)] = e],
                  !.num_hashes = 0]

\* a record that puts its entry at the head of the ledger
record_at_head(g, transactions) ==
    LET tx_hash == hash_transactions(transactions)
        h == sha256(g.current_hash \o tx_hash)
    IN  [g EXCEPT !.current_hash = h,
                  !.entries = <<Entry(g.num_hashes + 1, h, transactions)>> \o g.entries,
                  !.num_hashes = 0]

\* a record that leaves the counter at the count it wrote
record_keep_count(g, transactions) ==
    LET tx_hash == hash_transactions(transactions)
        h == sha256(g.current_hash \o tx_hash)
        n == g.num_hashes + 1
    IN  [g EXCEPT !.current_hash = h,
                  !.entries = Append(g.entries, Entry(n, h, transactions)),
                  !.num_hashes = n]

record(g, transactions) ==
    LET tx_hash == hash_transactions(transactions)
        h == sha256(g.current_hash \o tx_hash)
        n == g.num_hashes + 1
    IN  [g EXCEPT !.current_hash = h,
                  !.entries = Append(g.entries, Entry(n, h, transactions)),
                  !.num_hashes = 0]

\* a last_hash one hash ahead of the chain
last_hash_ahead(g) == sha256(g.current_hash)

last_hash(g) == g.current_hash

saturating_sub(a, b) == IF a < b THEN 0 ELSE a - b

\* the chain value verify computes for one entry, from the value before it
ReplayEntry(current_hash, entry) ==
    IF entry.transactions = <<>>
    THEN HashTimes(current_hash, entry.num_hashes)
    ELSE sha256(HashTimes(current_hash, saturating_sub(entry.num_hashes, 1))
                \o hash_transactions(entry.transactions))

RECURSIVE VerifyFrom(_, _, _)
VerifyFrom(current_hash, entries, i) ==
    IF i > Len(entries) THEN TRUE
    ELSE LET h == ReplayEntry(current_hash, entries[i]) IN
         IF h # entries[i].hash THEN FALSE
         ELSE VerifyFrom(h, entries, i + 1)

verify(seed, entries) == VerifyFrom(sha256(seed), entries, 1)

-----------------------------------------------------------------------------
(* Ed25519 (ed25519_dalek), as an ideal signature scheme: keys and signatures
   are symbolic terms, a signature verifies under a key exactly when it was
   made with that key's signing seed over the same bytes. Derived keys are
   written with entries below -9, so they differ from every literal byte
   string and from the markers of digests and signatures. *)

\* SigningKey::from_bytes(seed).verifying_key().to_bytes()
verifying_key(seed) == [i \in 1..PUBKEY_BYTES |-> -seed[i] - 10]

IsDerivedKey(key) == Len(key) = PUBKEY_BYTES /\ \A i \in 1..Len(key) : key[i] <= -10

SeedOf(key) == [i \in 1..PUBKEY_BYTES |-> -key[i] - 10]

\* signing_key.sign(bytes).to_bytes()
sign(seed, bytes) == <<-3>> \o seed \o bytes

\* VerifyingKey::from_bytes succeeds when the bytes decompress to a curve point:
\* every derived key does; of the literal strings (about half of which do) the
\* model takes those with an even first byte, the all-zero string among them.
VerifyingKey_from_bytes_ok(key) == IsDerivedKey(key) \/ key[1] % 2 = 0

\* verifying_key.verify(bytes, signature)
ed25519_verify(key, bytes, signature) ==
    IsDerivedKey(key) /\ signature = sign(SeedOf(key), bytes)

-----------------------------------------------------------------------------
(* runtime/bank.rs *)

BankOk == [kind |-> "Ok", expected |-> -1, got |-> -1, index |-> -1]
BankPanic == [kind |-> "Panic", expected |-> -1, got |-> -1, index |-> -1]
NotEnoughSignatures(expected, got) ==
    [kind |-> "NotEnoughSignatures", expected |-> expected, got |-> got, index |-> -1]
InvalidPublicKey(index) ==
    [kind |-> "InvalidPublicKey", expected |-> -1, got |-> -1, index |-> index]
SignatureVerificationFailed(index) ==
    [kind |-> "SignatureVerificationFailed", expected |-> -1, got |-> -1, index |-> index]

serialize_instruction(ix) ==
    <<ix.program_id_index, Len(ix.accounts) % U8Mod>> \o ix.accounts
        \o to_le_bytes(Len(ix.data) % U16Mod, 2) \o ix.data

serialize_message(msg) ==
    <<msg.header.num_required_signatures,
      msg.header.num_readonly_signed_accounts,
      msg.header.num_readonly_unsigned_accounts,
      Len(msg.account_keys) % U8Mod>>
        \o Flatten(msg.account_keys)
        \o msg.recent_blockhash
        \o <<Len(msg.instructions) % U8Mod>>
        \o Flatten([k \in 1..Len(msg.instructions) |->
                        serialize_instruction(msg.instructions[k])])

\* a check of every signature against the first key
FirstKey(message, i) == message.account_keys[1]

\* the key the signature at index i is checked against
SignerKey(message, i) == message.account_keys[i + 1]

\* a signer loop that goes on after a failure and reports the last one
RECURSIVE VerifyAllSigners(_, _, _)
VerifyAllSigners(tx, message_bytes, i) ==
    IF i >= tx.message.header.num_required_signatures THEN BankOk
    ELSE IF i >= Len(tx.message.account_keys) THEN BankPanic
    ELSE LET rest == VerifyAllSigners(tx, message_bytes, i + 1)
         IN  IF rest # BankOk THEN rest
             ELSE IF ~VerifyingKey_from_bytes_ok(SignerKey(tx.message, i))
                  THEN InvalidPublicKey(i)
             ELSE IF ~ed25519_verify(SignerKey(tx.message, i), message_bytes,
                                     tx.signatures[i + 1])
                  THEN SignatureVerificationFailed(i)
             ELSE BankOk

RECURSIVE VerifySigners(_, _, _)
VerifySigners(tx, message_bytes, i) ==
    IF i >= tx.message.header.num_required_signatures THEN BankOk
    ELSE IF i >= Len(tx.message.account_keys) THEN BankPanic     \* index out of bounds
    ELSE IF ~VerifyingKey_from_bytes_ok(SignerKey(tx.message, i))
         THEN InvalidPublicKey(i)
    ELSE IF ~ed25519_verify(SignerKey(tx.message, i), message_bytes, tx.signatures[i + 1])
         THEN SignatureVerificationFailed(i)
    ELSE VerifySigners(tx, message_bytes, i + 1)

\* a check that looks at the first key before it counts the signatures
verify_key_first(tx) ==
    LET num_required == tx.message.header.num_required_signatures
    IN  IF /\ num_required > 0
           /\ Len(tx.message.account_keys) > 0
           /\ ~VerifyingKey_from_bytes_ok(SignerKey(tx.message, 0))
        THEN InvalidPublicKey(0)
        ELSE IF Len(tx.signatures) < num_required
        THEN NotEnoughSignatures(num_required, Len(tx.signatures))
        ELSE VerifySigners(tx, serialize_message(tx.message), 0)

verify_signatures(tx) ==
    LET num_required == tx.message.header.num_required_signatures
    IN  IF Len(tx.signatures) < num_required
        THEN NotEnoughSignatures(num_required, Len(tx.signatures))
        ELSE VerifySigners(tx, serialize_message(tx.message), 0)

-----------------------------------------------------------------------------
(* Inputs of the SVM specification *)

Alice   == from_byte(1)
Bob     == from_byte(2)
Program == from_byte(3)          \* a program other than the System program

\* instruction payloads in the System program's wire format
transfer_ix_data(lamports) == to_le_bytes(2, 4) \o to_le_bytes(lamports, 8)
create_account_ix_data(lamports, space, owner) ==
    to_le_bytes(0, 4) \o to_le_bytes(lamports, 8) \o to_le_bytes(space, 8) \o owner
assign_ix_data(owner) == to_le_bytes(8, 4) \o owner

VmAccounts ==
    {AccountSharedData(l, <<>>, o) :
        l \in {0, 1, U64Max}, o \in {SYSTEM_PROGRAM_ID, Program}}
    \cup {AccountSharedData(0, <<0>>, SYSTEM_PROGRAM_ID)}
    \cup {[lamports |-> 2, data |-> <<1>>, owner |-> SYSTEM_PROGRAM_ID,
           executable |-> TRUE, rent_epoch |-> 1]}

\* stores holding any of VmAccounts, or nothing, at Alice and at Bob
VmStores ==
    {[k \in present |-> IF k = Alice THEN a ELSE b] :
        present \in SUBSET {Alice, Bob}, a \in VmAccounts, b \in VmAccounts}

VmKeyLists ==
    {<<Alice, Bob, SYSTEM_PROGRAM_ID>>, <<Alice, Alice, SYSTEM_PROGRAM_ID>>,
     <<Bob, Alice, Program>>, <<Alice, SYSTEM_PROGRAM_ID>>}

VmInstructions ==
    {CompiledInstruction(2, a, d) :
        a \in {<<0, 1>>, <<1, 0>>},
        d \in {transfer_ix_data(1), create_account_ix_data(1, 1, Program)}}
    \cup {CompiledInstruction(2, a, assign_ix_data(Program)) : a \in {<<0>>, <<1>>}}
    \cup {CompiledInstruction(2, <<0, 1>>, d) :
            d \in {transfer_ix_data(U64Max), create_account_ix_data(0, U64Max, Program),
                   <<2, 0, 0>>, to_le_bytes(2, 4), to_le_bytes(1, 4)}}
    \cup {CompiledInstruction(2, a, transfer_ix_data(1)) :
            a \in {<<0, 0>>, <<0>>, <<0, 3>>, <<1, 2>>}}
    \cup {CompiledInstruction(p, <<0, 1>>, transfer_ix_data(1)) : p \in {1, 3}}
    \cup {CompiledInstruction(2, <<3, 4>>, <<2, 0, 0>>)}

VmInstructionLists ==
    {<<>>} \cup {<<i>> : i \in VmInstructions}
           \cup {<<i, j>> : i \in VmInstructions, j \in VmInstructions}

VmTransactions ==
    {Transaction(Message(MessageHeader(1, 0, 1), keys, Zeros(PUBKEY_BYTES), ixs), <<>>) :
        keys \in VmKeyLists, ixs \in VmInstructionLists}

-----------------------------------------------------------------------------
(* Values of the variables a specification does not use *)

VmIdle == [state |-> "idle", tx |-> <<>>, pre |-> <<>>, res |-> SvmOk, trace |-> <<>>]
PohIdle == <<>>
BankIdle == [state |-> "idle", tx |-> <<>>, res |-> BankOk]
NodeIdle == <<>>

OthersIdleVM ==
    /\ poh = PohIdle /\ poh_log = <<>> /\ bank = BankIdle
    /\ pc = NodeIdle /\ req = NodeIdle /\ db_lock = NodeIdle /\ poh_lock = NodeIdle
    /\ ticker = NodeIdle /\ node_log = <<>>

-----------------------------------------------------------------------------
(* The SVM specification: one call of svm::execute on any store *)

InitVM ==
    /\ overflow_checks \in BOOLEAN
    /\ db \in VmStores
    /\ \E tx \in VmTransactions :
          vm = [state |-> "called", tx |-> tx, pre |-> db, res |-> SvmOk, trace |-> <<>>]
    /\ OthersIdleVM

\* svm::execute(&tx, &mut db) runs to its end
VmExecute ==
    /\ vm.state = "called"
    /\ LET out == execute(vm.tx, db) IN
         /\ db' = out.db
         /\ vm' = [vm EXCEPT !.state = "returned", !.res = out.res, !.trace = out.trace]
    /\ UNCHANGED <<overflow_checks, poh, poh_log, bank, pc, req, db_lock, poh_lock,
                   ticker, node_log>>

NextVM == VmExecute

SpecVM == InitVM /\ [][NextVM]_vars

-----------------------------------------------------------------------------
(* Claims about svm::execute and the System program (SpecVM) *)

VmReturned == vm.state = "returned"
VmErrorKinds == {"InvalidAccountIndex", "UnknownProgram", "SystemProgram"}

\* the working sets before and after instruction k (0-based) of the last call
Before(k) == vm.trace[k + 1]
After(k) == vm.trace[k + 2]
\* the instructions of the last call that ran to success
Succeeded == IF VmReturned THEN 0..(Len(vm.trace) - 2) ELSE {}
IxOf(k) == vm.tx.message.instructions[k + 1]

\* C1: Atomicity. When execute returns an error (InvalidAccountIndex,
\* UnknownProgram or SystemProgram, at any instruction index), the store after
\* the call equals the store before it: same addresses, same accounts.
C1_Atomicity ==
    (VmReturned /\ vm.res.kind \in VmErrorKinds) => db = vm.pre

\* an error at the second instruction, after the first one changed the working set
C1_Witness ==
    /\ VmReturned
    /\ vm.res.kind = "SystemProgram"
    /\ vm.res.instruction = 1
    /\ Len(vm.trace) = 2
    /\ vm.trace[2] # vm.trace[1]
    /\ db = vm.pre

\* instruction k is a System Transfer whose account indexes are pairwise distinct
\* and name pairwise distinct addresses
IsPlainTransfer(k) ==
    LET ix == IxOf(k)
        keys == vm.tx.message.account_keys
    IN  /\ decode(ix.data).ok
        /\ decode(ix.data).ix.type = "Transfer"
        /\ Len(ix.accounts) >= 2
        /\ \A p, q \in 1..Len(ix.accounts) :
              p # q => /\ ix.accounts[p] # ix.accounts[q]
                       /\ keys[ix.accounts[p] + 1] # keys[ix.accounts[q] + 1]

\* C2: Balance conservation on Transfer. Every successful Transfer of n between
\* two distinct accounts A and B leaves balance(A) + balance(B) unchanged, A
\* reduced by exactly n and B increased by exactly n.
C2_TransferConserves ==
    \A k \in Succeeded :
        IsPlainTransfer(k) =>
            LET a == IxOf(k).accounts[1] + 1
                b == IxOf(k).accounts[2] + 1
                n == decode(IxOf(k).data).ix.lamports
            IN  /\ After(k)[a].lamports = Before(k)[a].lamports - n
                /\ After(k)[b].lamports = Before(k)[b].lamports + n
                /\ After(k)[a].lamports + After(k)[b].lamports
                     = Before(k)[a].lamports + Before(k)[b].lamports

\* C3: Owner exclusivity. An account whose owner is not the System program
\* before a System-program instruction has the same balance and the same data
\* after that instruction.
C3_OwnerExclusivity ==
    \A k \in Succeeded :
        \A i \in 1..Len(Before(k)) :
            Before(k)[i].owner # SYSTEM_PROGRAM_ID =>
                /\ After(k)[i].lamports = Before(k)[i].lamports
                /\ After(k)[i].data = Before(k)[i].data

\* the instructions of the last call that were started: the ones that ran to
\* success and, when the call did not return Ok, the one it stopped at
Reached ==
    IF VmReturned
    THEN {k \in 0..(Len(vm.trace) - 1) : k < Len(vm.tx.message.instructions)}
    ELSE {}

\* instruction k is a plain Transfer that its source can pay and whose credit
\* exceeds the largest 64-bit balance
CreditOverflows(k) ==
    /\ IxOf(k).program_id_index < Len(vm.tx.message.account_keys)
    /\ vm.tx.message.account_keys[IxOf(k).program_id_index + 1] = SYSTEM_PROGRAM_ID
    /\ \A p \in 1..Len(IxOf(k).accounts) :
          IxOf(k).accounts[p] < Len(vm.tx.message.account_keys)
    /\ IsPlainTransfer(k)
    /\ LET a == IxOf(k).accounts[1] + 1
           b == IxOf(k).accounts[2] + 1
           n == decode(IxOf(k).data).ix.lamports
       IN  /\ Before(k)[a].owner = SYSTEM_PROGRAM_ID
           /\ Before(k)[a].lamports >= n
           /\ Before(k)[b].lamports + n > U64Max

\* C11: Credit overflow is an error. A Transfer of n to a destination whose
\* balance b satisfies b + n > 2^64 - 1 makes the call return a System-program
\* error value at that instruction and leaves the store unchanged; the balance
\* does not wrap around and the call does not abort.
C11_CreditOverflowIsError ==
    \A k \in Reached :
        CreditOverflows(k) =>
            /\ vm.res.kind = "SystemProgram"
            /\ vm.res.instruction = k
            /\ k \notin Succeeded
            /\ db = vm.pre

\* the working set after the last instruction that ran to success
FinalWorkingSet == vm.trace[Len(vm.trace)]

\* C12: Commit on success. When execute returns Ok, then for every index i of
\* message.account_keys the store holds the final working-set account W[i]
\* under the address account_keys[i], keys no instruction touched and keys
\* absent before the call included.
C12_CommitOnSuccess ==
    (VmReturned /\ vm.res.kind = "Ok") =>
        \A i \in 1..Len(vm.tx.message.account_keys) :
            /\ contains(db, vm.tx.message.account_keys[i])
            /\ db[vm.tx.message.account_keys[i]] = FinalWorkingSet[i]

\* the addresses a call of the SVM specification can name
VmAddresses == {Alice, Bob, Program, SYSTEM_PROGRAM_ID}

\* what an observer reads at an address: balance, owner and data
Observe(d, pubkey) ==
    LET account == load_or_default(d, pubkey)
    IN  <<account.lamports, account.owner, account.data>>

\* C13: Implicit default account. For every transaction and every address a,
\* execute on a store where a is absent and on the same store where a holds
\* the account {balance 0, empty data, zero-address owner, executable false,
\* rent_epoch 0} gives the same Ok/error result and the same resulting
\* balance, owner and data for every address.
C13_ImplicitDefault ==
    VmReturned =>
        \A a \in VmAddresses \ DOMAIN vm.pre :
            LET other == execute(vm.tx, store(vm.pre, a, DefaultAccount))
            IN  /\ other.res = vm.res
                /\ \A b \in VmAddresses : Observe(other.db, b) = Observe(db, b)

\* a successful call that credited an address absent before it
C13_Witness ==
    /\ VmReturned
    /\ vm.res.kind = "Ok"
    /\ \E i \in 1..Len(vm.tx.message.account_keys) :
          LET a == vm.tx.message.account_keys[i]
          IN  /\ ~contains(vm.pre, a)
              /\ db[a].lamports = 1
              /\ execute(vm.tx, store(vm.pre, a, DefaultAccount)).db[a].lamports = 1

\* the transaction is Transfer{1} from index 0 to index 1 and then Transfer{1}
\* from index 1 to index 2, over three distinct addresses
IsTransferChain ==
    /\ vm.tx.message.account_keys = <<Alice, Bob, SYSTEM_PROGRAM_ID>>
    /\ vm.tx.message.instructions =
          <<CompiledInstruction(2, <<0, 1>>, transfer_ix_data(1)),
            CompiledInstruction(2, <<1, 2>>, transfer_ix_data(1))>>

\* C22: Sequential instruction visibility. Within one transaction, instruction
\* k operates on the account values left in the working set by instructions
\* 0..k-1, not on the values loaded from the store: its outcome is the one
\* the instruction has on that working set; and a transaction that transfers n
\* from A to B and then n from B to C succeeds when B started with balance 0,
\* leaving B at 0 again.
C22_SequentialVisibility ==
    VmReturned =>
        /\ vm.trace[1] = LoadWorkingSet(vm.pre, vm.tx.message.account_keys)
        /\ \A k \in Reached :
              LET step == ExecuteInstruction(vm.tx.message, Before(k), k)
              IN  IF k \in Succeeded
                  THEN step.res = SvmOk /\ After(k) = step.working_set
                  ELSE step.res = vm.res
        /\ (/\ IsTransferChain
            /\ load_or_default(vm.pre, Alice).owner = SYSTEM_PROGRAM_ID
            /\ load_or_default(vm.pre, Alice).lamports >= 1
            /\ load_or_default(vm.pre, Bob).owner = SYSTEM_PROGRAM_ID
            /\ load_or_default(vm.pre, Bob).lamports = 0) =>
               /\ vm.res = SvmOk
               /\ db[Alice].lamports = vm.pre[Alice].lamports - 1
               /\ db[Bob].lamports = 0
               /\ db[SYSTEM_PROGRAM_ID].lamports = 1

\* the chain on a store where Bob is absent: the second transfer pays with the
\* lamport the first one brought
C22_Witness ==
    /\ VmReturned
    /\ IsTransferChain
    /\ ~contains(vm.pre, Bob)
    /\ vm.res = SvmOk
    /\ Before(1)[2].lamports = 1
    /\ db[Bob].lamports = 0
    /\ db[SYSTEM_PROGRAM_ID].lamports = 1

\* the entries of the accounts of instruction k that name no account key, in
\* the order of the list
OutOfRange(k) ==
    SelectSeq(IxOf(k).accounts, LAMBDA i : i >= Len(vm.tx.message.account_keys))

\* C23: Index validation. For instruction k, if program_id_index is not less
\* than the number of account keys, execute returns InvalidAccountIndex{k,
\* program_id_index}; otherwise if some entry of instruction.accounts is not
\* less than the number of account keys, execute returns InvalidAccountIndex{k,
\* first such entry}. Both checks come before the dispatch, so the index is
\* reported also when the program id is unknown or the data is malformed; and
\* InvalidAccountIndex is returned in no other case.
C23_IndexValidation ==
    VmReturned =>
        /\ \A k \in Reached :
              IF IxOf(k).program_id_index >= Len(vm.tx.message.account_keys)
              THEN vm.res = InvalidAccountIndex(k, IxOf(k).program_id_index)
              ELSE IF OutOfRange(k) # <<>>
              THEN vm.res = InvalidAccountIndex(k, OutOfRange(k)[1])
              ELSE ~(vm.res.kind = "InvalidAccountIndex" /\ vm.res.instruction = k)
        /\ vm.res.kind = "InvalidAccountIndex" => vm.res.instruction \in Reached

\* the first instruction names two indexes out of range, has malformed data
\* and resolves to a program that is not the System program
C23_Witness ==
    /\ VmReturned
    /\ Len(vm.tx.message.instructions) >= 1
    /\ IxOf(0) = CompiledInstruction(2, <<3, 4>>, <<2, 0, 0>>)
    /\ Len(vm.tx.message.account_keys) = 3
    /\ vm.tx.message.account_keys[3] = Program
    /\ ~decode(IxOf(0).data).ok
    /\ vm.res = InvalidAccountIndex(0, 3)

\* the indexes of instruction k all name account keys
IndexesInRange(k) ==
    /\ IxOf(k).program_id_index < Len(vm.tx.message.account_keys)
    /\ OutOfRange(k) = <<>>

ProgramIdOf(k) == vm.tx.message.account_keys[IxOf(k).program_id_index + 1]

\* the accounts instruction k hands to the program
SliceOf(k) == [p \in 1..Len(IxOf(k).accounts) |-> Before(k)[IxOf(k).accounts[p] + 1]]

\* instruction k ended as the System program ends on its data and its slice
HandledBySystem(k) ==
    LET decoded == decode(IxOf(k).data)
        out == process(decoded.ix, SliceOf(k))
    IN  IF ~decoded.ok
        THEN vm.res = SystemProgramError(k, decoded.error, decoded.disc)
        ELSE CASE out.res = "Ok" ->
                    /\ k \in Succeeded
                    /\ After(k) = WriteBack(Before(k), IxOf(k).accounts, out.accounts, 1)
               [] out.res = "Panic" -> vm.res = SvmPanic
               [] OTHER -> vm.res = SystemProgramError(k, out.res, 0)

\* C24: Dispatch. An instruction whose resolved program id is the all-zeros
\* address is decoded and processed by the System program; an instruction
\* whose resolved program id is any other address makes execute return
\* UnknownProgram{k} with k the instruction's index, no program code being run
\* for it (its accounts stay as they were and nothing is committed).
C24_Dispatch ==
    VmReturned =>
        \A k \in Reached :
            IndexesInRange(k) =>
                IF ProgramIdOf(k) = Zeros(PUBKEY_BYTES)
                THEN HandledBySystem(k)
                ELSE /\ vm.res = UnknownProgram(k)
                     /\ k \notin Succeeded
                     /\ db = vm.pre

\* a well-formed Transfer the source could pay, sent to a program id that is
\* the address of an account: the second instruction, after a first one that
\* the System program ran
C24_Witness ==
    /\ VmReturned
    /\ Len(vm.tx.message.instructions) = 2
    /\ 0 \in Succeeded
    /\ IxOf(0).program_id_index = 2 /\ ProgramIdOf(0) = SYSTEM_PROGRAM_ID
    /\ IxOf(1) = CompiledInstruction(1, <<0, 1>>, transfer_ix_data(1))
    /\ ProgramIdOf(1) = Bob
    /\ Before(1)[1].lamports >= 1 /\ Before(1)[1].owner = SYSTEM_PROGRAM_ID
    /\ vm.res = UnknownProgram(1)

\* the System program's error for instruction k on the working set before it,
\* or Ok when it accepts the instruction
SystemOutcome(k) ==
    LET decoded == decode(IxOf(k).data)
    IN  IF ~decoded.ok THEN SystemProgramError(k, decoded.error, decoded.disc)
        ELSE LET out == process(decoded.ix, SliceOf(k))
             IN  CASE out.res = "Ok" -> SvmOk
                   [] out.res = "Panic" -> SvmPanic
                   [] OTHER -> SystemProgramError(k, out.res, 0)

\* the transaction cut off after instruction k
UpTo(k) ==
    [vm.tx EXCEPT !.message.instructions = SubSeq(@, 1, k + 1)]

\* C25: First failing instruction. When execute returns SystemProgram{
\* instruction: k, error}, every instruction before k succeeded, k is a System
\* instruction whose decode or process fails on the working set instructions
\* 0..k-1 produced, error is exactly that decode or process error, and no
\* instruction after k is executed: the working set stays as instruction k
\* found it, nothing is committed, and the result is the one of the
\* transaction cut off after k.
C25_FirstFailingInstruction ==
    (VmReturned /\ vm.res.kind = "SystemProgram") =>
        LET k == vm.res.instruction
        IN  /\ k \in Reached
            /\ Succeeded = 0..(k - 1)
            /\ \A j \in 0..(k - 1) : SystemOutcome(j) = SvmOk
            /\ IndexesInRange(k) /\ ProgramIdOf(k) = SYSTEM_PROGRAM_ID
            /\ vm.res = SystemOutcome(k)
            /\ Len(vm.trace) = k + 1
            /\ db = vm.pre
            /\ execute(UpTo(k), vm.pre).res = vm.res

\* the first instruction has malformed data and the second one, which the
\* System program would accept on the loaded accounts, is never run
C25_Witness ==
    /\ VmReturned
    /\ Len(vm.tx.message.instructions) = 2
    /\ vm.res = SystemProgramError(0, "InvalidInstructionData", 0)
    /\ ExecuteInstruction(vm.tx.message, vm.trace[1], 1).res = SvmOk
    /\ ExecuteInstruction(vm.tx.message, vm.trace[1], 1).working_set # vm.trace[1]
    /\ Len(vm.trace) = 1
    /\ db = vm.pre

\* the slice the System program leaves for instruction k
ProcessedSlice(k) == process(decode(IxOf(k).data).ix, SliceOf(k)).accounts

\* positions p < q of the accounts of instruction k that list the same index
DuplicatePositions(k) ==
    {pq \in (1..Len(IxOf(k).accounts)) \X (1..Len(IxOf(k).accounts)) :
        pq[1] < pq[2] /\ IxOf(k).accounts[pq[1]] = IxOf(k).accounts[pq[2]]}

\* C26: Last-write-wins on duplicate indexes. When one instruction lists the
\* same account index at positions p < q of its accounts, the program gets two
\* copies of the working-set entry, one per position, and after success the
\* working-set entry for that index is the copy at the last position listing
\* it; the copy at p is discarded.
C26_LastWriteWins ==
    \A k \in Succeeded :
        \A pq \in DuplicatePositions(k) :
            LET p == pq[1]
                q == pq[2]
                i == IxOf(k).accounts[q] + 1
            IN  /\ SliceOf(k)[p] = Before(k)[i] /\ SliceOf(k)[q] = Before(k)[i]
                /\ (\A r \in (q + 1)..Len(IxOf(k).accounts) : IxOf(k).accounts[r] + 1 # i)
                      => After(k)[i] = ProcessedSlice(k)[q]

\* Transfer{1} from index 0 to index 0: the debited copy is discarded and the
\* credited one is kept
C26_Witness ==
    /\ 0 \in Succeeded
    /\ IxOf(0) = CompiledInstruction(2, <<0, 0>>, transfer_ix_data(1))
    /\ ProcessedSlice(0)[1].lamports = Before(0)[1].lamports - 1
    /\ ProcessedSlice(0)[2].lamports = Before(0)[1].lamports + 1
    /\ After(0)[1] = ProcessedSlice(0)[2]
    /\ After(0)[1] # ProcessedSlice(0)[1]

\* balance, owner and data of the account at an address of a store
Contents(d, pubkey) ==
    LET a == load_or_default(d, pubkey)
    IN  [lamports |-> a.lamports, owner |-> a.owner, data |-> a.data]

\* indexes (0-based) of account_keys that the header marks read-only
ReadOnlyIndexes ==
    {i \in 0..(Len(vm.tx.message.account_keys) - 1) :
        is_writable(vm.tx.message, i) = BoolOk(FALSE)}

\* C36: Read-only accounts are not written. For every transaction, an account
\* at an index i of account_keys for which Message::is_writable(i) is false has
\* the same balance, owner and data in the store after a successful
\* svm::execute as it had, explicitly or as the implicit default, before.
C36_ReadOnlyUnwritten ==
    (VmReturned /\ vm.res = SvmOk) =>
        \A i \in ReadOnlyIndexes :
            Contents(db, vm.tx.message.account_keys[i + 1])
                = Contents(vm.pre, vm.tx.message.account_keys[i + 1])

\* the addresses a transaction names
KeysOf(tx) == {tx.message.account_keys[i] : i \in 1..Len(tx.message.account_keys)}

\* C37: Frame of execute. For every transaction and store, svm::execute,
\* successful or not, leaves the store entry of every address that does not
\* occur in message.account_keys exactly as it was (an address without an entry
\* gets none), and never removes an address from the store.
C37_Frame ==
    VmReturned =>
        /\ \A a \in DOMAIN vm.pre : contains(db, a)
        /\ \A a \in (DOMAIN vm.pre) \ KeysOf(vm.tx) : db[a] = vm.pre[a]
        /\ \A a \in (DOMAIN db) \ KeysOf(vm.tx) : contains(vm.pre, a)

\* a successful transfer from Alice to the System address, with Bob's funded
\* account in the store and not among the keys
C37_Witness ==
    /\ VmReturned /\ vm.res = SvmOk
    /\ vm.tx.message.account_keys = <<Alice, SYSTEM_PROGRAM_ID>>
    /\ contains(vm.pre, Alice) /\ contains(vm.pre, Bob)
    /\ vm.pre[Bob].lamports = U64Max
    /\ db[Alice] # vm.pre[Alice]
    /\ db[Bob] = vm.pre[Bob]
    /\ DOMAIN db = {Alice, Bob, SYSTEM_PROGRAM_ID}

-----------------------------------------------------------------------------
(* The PoH specification: tick() and record() on a fresh generator *)

\* a signature all of whose bytes are b
Sig(b) == [i \in 1..SIGNATURE_BYTES |-> b]

PohMessage(lamports) ==
    Message(MessageHeader(1, 0, 1), <<Alice, Bob, SYSTEM_PROGRAM_ID>>, Zeros(PUBKEY_BYTES),
            <<CompiledInstruction(2, <<0, 1>>, transfer_ix_data(lamports))>>)

PohSeed == <<1, 2, 3>>

\* transactions handed to record(): one or two signatures, or none
PohTransactions ==
    {Transaction(PohMessage(1), sigs) : sigs \in {<<Sig(1)>>, <<Sig(1), Sig(2)>>, <<>>}}

PohBatches ==
    {<<>>} \cup {<<t>> : t \in PohTransactions}
           \cup {<<Transaction(PohMessage(1), <<Sig(1)>>), Transaction(PohMessage(1), <<Sig(2)>>)>>}
           \cup {<<Transaction(PohMessage(1), <<Sig(1)>>), Transaction(PohMessage(1), <<>>)>>}

OthersIdlePoH ==
    /\ overflow_checks = FALSE /\ db = AccountsDB_new /\ vm = VmIdle /\ bank = BankIdle
    /\ pc = NodeIdle /\ req = NodeIdle /\ db_lock = NodeIdle /\ poh_lock = NodeIdle
    /\ ticker = NodeIdle /\ node_log = <<>>

InitPoH ==
    /\ \E hashes_per_tick \in 0..MaxHashesPerTick :
          poh = PohGenerator_new(PohSeed, hashes_per_tick)
    /\ poh_log = [seed |-> PohSeed, empty_batch |-> FALSE]
    /\ OthersIdlePoH

PohTick ==
    /\ Len(poh.entries) < MaxEntries
    /\ poh' = tick(poh)
    /\ UNCHANGED <<overflow_checks, db, vm, poh_log, bank, pc, req, db_lock, poh_lock,
                   ticker, node_log>>

PohRecord ==
    /\ Len(poh.entries) < MaxEntries
    /\ \E transactions \in PohBatches :
          /\ poh' = record(poh, transactions)
          /\ poh_log' = [poh_log EXCEPT !.empty_batch = @ \/ transactions = <<>>]
    /\ UNCHANGED <<overflow_checks, db, vm, bank, pc, req, db_lock, poh_lock,
                   ticker, node_log>>

NextPoH == PohTick \/ PohRecord

SpecPoH == InitPoH /\ [][NextPoH]_vars

-----------------------------------------------------------------------------
(* Claims about the PoH chain (SpecPoH) *)

IsRecord(e) == e.transactions # <<>>
HasRecord == \E i \in 1..Len(poh.entries) : IsRecord(poh.entries[i])
HasTick == \E i \in 1..Len(poh.entries) : ~IsRecord(poh.entries[i])

\* C4 as claimed: after any finite sequence of tick() and record(txs) calls, with
\* any hashes_per_tick and any transaction batches, verify(seed, entries) is true.
C4_AnyBatchVerifies == verify(poh_log.seed, poh.entries)

\* C4 as amended: after any finite sequence of tick() and record(txs) calls in
\* which every recorded batch holds at least one transaction, verify(seed,
\* entries) is true.
C4_ChainConsistency == ~poh_log.empty_batch => verify(poh_log.seed, poh.entries)

\* a full ledger holding ticks of at least one hash and records, which verifies
C4_Witness ==
    /\ ~poh_log.empty_batch
    /\ Len(poh.entries) = MaxEntries
    /\ poh.hashes_per_tick > 0
    /\ HasRecord /\ HasTick
    /\ IsRecord(poh.entries[Len(poh.entries)])
    /\ verify(poh_log.seed, poh.entries)

\* Single-entry changes of a ledger: another hash, another num_hashes, or
\* another transaction list (a signature, a message field or the grouping changed).
TamperHashes(entries) ==
    {sha256(<<>>), Zeros(PUBKEY_BYTES)}
    \cup {entries[i].hash : i \in 1..Len(entries)}
    \cup {sha256(entries[i].hash) : i \in 1..Len(entries)}

TamperCounts == 0..(MaxHashesPerTick + 1)

TamperTransactions ==
    {Transaction(PohMessage(l), sigs) :
        l \in {1, 2}, sigs \in {<<Sig(1)>>, <<Sig(2)>>, <<Sig(1), Sig(2)>>, <<>>}}

TamperBatches ==
    {<<>>} \cup {<<t>> : t \in TamperTransactions}
           \cup {<<t, u>> : t, u \in {Transaction(PohMessage(1), <<Sig(b)>>) : b \in {1, 2}}}

TamperedHash(entries) ==
    {[entries EXCEPT ![i].hash = h] :
        i \in 1..Len(entries), h \in TamperHashes(entries)} \ {entries}

TamperedCount(entries) ==
    {[entries EXCEPT ![i].num_hashes = n] :
        i \in 1..Len(entries), n \in TamperCounts} \ {entries}

TamperedTransactions(entries) ==
    {[entries EXCEPT ![i].transactions = b] :
        i \in 1..Len(entries), b \in TamperBatches} \ {entries}

Tampered(entries) ==
    TamperedHash(entries) \cup TamperedCount(entries) \cup TamperedTransactions(entries)

\* C5: PoH tampering detection. For any ledger produced by tick()/record() that
\* contains at least one record entry, changing any single entry's hash, its
\* num_hashes, or any part of its transactions makes verify(seed, entries) false.
C5_TamperDetected ==
    (HasRecord /\ ~poh_log.empty_batch) =>
        \A t \in Tampered(poh.entries) : ~verify(poh_log.seed, t)

\* the byte string a transaction list feeds into its entry's hash
MixedBytes(transactions) ==
    Flatten([i \in 1..Len(transactions) |-> MixBytes(transactions[i])])

\* the number of plain hashes verify replays for an entry with this num_hashes
PlainHashes(e, n) == IF IsRecord(e) THEN saturating_sub(n, 1) ELSE n

\* the single-entry changes that alter what verify recomputes or compares
DetectableCount(entries) ==
    UNION {{[entries EXCEPT ![i].num_hashes = n] :
              n \in {m \in TamperCounts :
                       PlainHashes(entries[i], m)
                         # PlainHashes(entries[i], entries[i].num_hashes)}} :
           i \in 1..Len(entries)}

DetectableTransactions(entries) ==
    UNION {{[entries EXCEPT ![i].transactions = b] :
              b \in {c \in TamperBatches :
                       \/ (c = <<>>) # (entries[i].transactions = <<>>)
                       \/ MixedBytes(c) # MixedBytes(entries[i].transactions)}} :
           i \in 1..Len(entries)}

\* C5 as amended: for any ledger produced by tick()/record() that contains at
\* least one record entry, verify(seed, entries) becomes false when a single
\* entry's hash is changed, when its num_hashes is changed (other than between 0
\* and 1 on a record entry), or when its transactions are changed so that the
\* mixed bytes differ (the signature bytes in order, the account-key bytes for a
\* transaction without signatures) or so that an empty list becomes non-empty or
\* the reverse. A changed message field of a signed transaction, a regrouping of
\* the same signatures and num_hashes 1 -> 0 on a record entry are not detected.
C5_MixedBytesTamperDetected ==
    (HasRecord /\ ~poh_log.empty_batch) =>
        \A t \in TamperedHash(poh.entries) \cup DetectableCount(poh.entries)
                   \cup DetectableTransactions(poh.entries) :
            ~verify(poh_log.seed, t)

\* a verifying ledger of ticks and a two-signature record, with one signature
\* of the record dropped: verify rejects the changed ledger
C5_Witness ==
    /\ ~poh_log.empty_batch
    /\ HasTick
    /\ verify(poh_log.seed, poh.entries)
    /\ \E i \in 1..Len(poh.entries) :
          /\ poh.entries[i].transactions = <<Transaction(PohMessage(1), <<Sig(1), Sig(2)>>)>>
          /\ LET t == [poh.entries EXCEPT
                          ![i].transactions = <<Transaction(PohMessage(1), <<Sig(1)>>)>>]
             IN  t \in DetectableTransactions(poh.entries) /\ ~verify(poh_log.seed, t)

\* the entry a step appended
Appended == poh'.entries[Len(poh'.entries)]

\* a tick step appends one entry of hashes_per_tick hashes and no transactions
TickEntryCounts ==
    PohTick => /\ Len(poh'.entries) = Len(poh.entries) + 1
               /\ Appended.transactions = <<>>
               /\ Appended.num_hashes = poh.hashes_per_tick

\* a record step appends one entry of one hash, holding the batch
RecordEntryCounts ==
    PohRecord => /\ Len(poh'.entries) = Len(poh.entries) + 1
                 /\ Appended.num_hashes = 1
                 /\ Appended.transactions \in PohBatches

\* C31: Entry hash counts. The generator's hash counter is 0 between operations;
\* each entry appended by tick() has empty transactions and num_hashes equal to
\* hashes_per_tick, and each entry appended by record() has num_hashes exactly 1
\* whatever number of ticks preceded it: the count is relative to the previous
\* entry, never cumulative.
C31_EntryHashCounts ==
    [](poh.num_hashes = 0) /\ [][TickEntryCounts /\ RecordEntryCounts]_vars

\* two ticks of two hashes each, then a record of one hash
C31_Witness ==
    /\ poh.hashes_per_tick = 2
    /\ Len(poh.entries) = 3
    /\ poh.entries[1] = Entry(2, HashTimes(sha256(PohSeed), 2), <<>>)
    /\ poh.entries[2].num_hashes = 2 /\ poh.entries[2].transactions = <<>>
    /\ poh.entries[3].num_hashes = 1 /\ IsRecord(poh.entries[3])
    /\ poh.num_hashes = 0

\* all signature bytes of a batch, in transaction order then signature order
SignatureBytes(transactions) ==
    Flatten([i \in 1..Len(transactions) |-> Flatten(transactions[i].signatures)])

\* all account-key bytes of a batch, in transaction order then key order
AccountKeyBytes(transactions) ==
    Flatten([i \in 1..Len(transactions) |-> Flatten(transactions[i].message.account_keys)])

AllSigned(transactions) ==
    \A i \in 1..Len(transactions) : transactions[i].signatures # <<>>

\* what one transaction contributes: its signatures, or its keys if it has none
Contribution(tx) ==
    IF Len(tx.signatures) >= 1 THEN SignatureBytes(<<tx>>) ELSE AccountKeyBytes(<<tx>>)

RECURSIVE Contributions(_)
Contributions(transactions) ==
    IF transactions = <<>> THEN <<>>
    ELSE Contribution(Head(transactions)) \o Contributions(Tail(transactions))

\* C32 as claimed: record(txs) sets current_hash to H(current_hash || M) where M
\* is the hash of all signature bytes, in transaction order then signature
\* order, if every transaction of the batch has a signature, and the hash of
\* the account_keys bytes of the batch, with no signature bytes, if any
\* transaction of the batch has none.
C32_BatchFallback ==
    [][PohRecord =>
          LET M == IF AllSigned(Appended.transactions)
                   THEN sha256(SignatureBytes(Appended.transactions))
                   ELSE sha256(AccountKeyBytes(Appended.transactions))
          IN  poh'.current_hash = sha256(poh.current_hash \o M)]_vars

\* C32 as amended: record(txs) sets current_hash to H(current_hash || M) where M
\* is the hash of the concatenation, in transaction order, of what each
\* transaction contributes: its signature bytes in signature order if it has at
\* least one signature, its account_keys bytes otherwise.
C32_RecordMixing ==
    [][PohRecord =>
          /\ poh'.current_hash
                = sha256(poh.current_hash \o sha256(Contributions(Appended.transactions)))
          /\ Appended.hash = poh'.current_hash]_vars

\* the first entry records a signed and an unsigned transaction: the signature
\* of the first and the keys of the second are mixed in
C32_Witness ==
    /\ Len(poh.entries) >= 1
    /\ poh.entries[1].transactions
          = <<Transaction(PohMessage(1), <<Sig(1)>>), Transaction(PohMessage(1), <<>>)>>
    /\ poh.entries[1].hash
          = sha256(sha256(PohSeed)
                   \o sha256(Sig(1) \o Alice \o Bob \o SYSTEM_PROGRAM_ID))
    /\ poh.entries[1].hash
          # sha256(sha256(PohSeed) \o sha256(AccountKeyBytes(poh.entries[1].transactions)))

-----------------------------------------------------------------------------
(* The Bank specification: one call of bank::verify_signatures on any transaction *)

Seed(b) == [i \in 1..PUBKEY_BYTES |-> b]
BankSeeds == {Seed(1), Seed(2)}
Key1 == verifying_key(Seed(1))
Key2 == verifying_key(Seed(2))

\* signer lists: derived keys in either order, too few keys, a string that is
\* no curve point, and a curve point nobody holds the seed of
BankKeyLists ==
    {<<>>, <<Key1>>, <<Key1, Key2, SYSTEM_PROGRAM_ID>>, <<Key2, Key1, SYSTEM_PROGRAM_ID>>,
     <<from_byte(1), Key1>>, <<SYSTEM_PROGRAM_ID, Key1>>,
     <<Key1, from_byte(1), SYSTEM_PROGRAM_ID>>}

BankMessage(s, keys, lamports) ==
    Message(MessageHeader(s, 0, 1), keys, Zeros(PUBKEY_BYTES),
            <<CompiledInstruction(2, <<0, 1>>, transfer_ix_data(lamports))>>)

BankMessages ==
    {BankMessage(s, keys, lamports) : s \in 0..3, keys \in BankKeyLists, lamports \in {1, 2}}

\* signatures offered with a message: by either seed over its bytes, by the
\* first seed over the bytes of the message moving the other amount, and a
\* byte string no key signed
BankSignatures(message) ==
    {sign(seed, serialize_message(message)) : seed \in BankSeeds}
    \cup {sign(Seed(1), serialize_message(
              [message EXCEPT !.instructions =
                  <<CompiledInstruction(2, <<0, 1>>, transfer_ix_data(3))>>])),
          Sig(1)}

BankSignatureLists(message) ==
    {<<>>} \cup {<<a>> : a \in BankSignatures(message)}
           \cup {<<a, b>> : a, b \in BankSignatures(message)}

BankTransactions ==
    UNION {{Transaction(message, sigs) : sigs \in BankSignatureLists(message)} :
           message \in BankMessages}

OthersIdleBank ==
    /\ overflow_checks = FALSE /\ db = AccountsDB_new /\ vm = VmIdle
    /\ poh = PohIdle /\ poh_log = <<>>
    /\ pc = NodeIdle /\ req = NodeIdle /\ db_lock = NodeIdle /\ poh_lock = NodeIdle
    /\ ticker = NodeIdle /\ node_log = <<>>

InitBank ==
    /\ \E tx \in BankTransactions : bank = [state |-> "called", tx |-> tx, res |-> BankOk]
    /\ OthersIdleBank

BankVerify ==
    /\ bank.state = "called"
    /\ bank' = [bank EXCEPT !.state = "returned", !.res = verify_signatures(bank.tx)]
    /\ UNCHANGED <<overflow_checks, db, vm, poh, poh_log, pc, req, db_lock, poh_lock,
                   ticker, node_log>>

NextBank == BankVerify

SpecBank == InitBank /\ [][NextBank]_vars

-----------------------------------------------------------------------------
(* Claims about the Bank (SpecBank) *)

\* signature was produced with the signing seed of key over bytes
ProducedBy(key, bytes, signature) ==
    \E seed \in BankSeeds : verifying_key(seed) = key /\ signature = sign(seed, bytes)

AllSignersSigned(tx) ==
    \A i \in 0..(tx.message.header.num_required_signatures - 1) :
        /\ i < Len(tx.signatures)
        /\ i < Len(tx.message.account_keys)
        /\ ProducedBy(tx.message.account_keys[i + 1], serialize_message(tx.message),
                      tx.signatures[i + 1])

\* C6: signature soundness. verify_signatures(tx) returns Ok if and only if, for
\* every index i below num_required_signatures, signatures[i] is a valid
\* signature by the key account_keys[i] (the key at the same index) over
\* serialize_message(tx.message).
C6_SignatureSoundness ==
    bank.state = "returned" => ((bank.res = BankOk) <=> AllSignersSigned(bank.tx))

\* two signers, each signature made by the key at its own index: accepted
C6_Witness ==
    /\ bank.state = "returned"
    /\ bank.tx.message.header.num_required_signatures = 2
    /\ bank.tx.message.account_keys = <<Key2, Key1, SYSTEM_PROGRAM_ID>>
    /\ bank.res = BankOk
    /\ AllSignersSigned(bank.tx)

BankS == bank.tx.message.header.num_required_signatures

\* C15: a transaction with fewer signatures than num_required_signatures S gets
\* NotEnoughSignatures{expected: S, got: number of signatures supplied},
\* whatever its keys and signatures are: the count is checked before any key or
\* signature is inspected, so it comes before InvalidPublicKey and
\* SignatureVerificationFailed.
C15_NotEnoughSignaturesFirst ==
    (bank.state = "returned" /\ Len(bank.tx.signatures) < BankS) =>
        bank.res = NotEnoughSignatures(BankS, Len(bank.tx.signatures))

\* too few signatures on a message whose first key is no verifying key and
\* whose one signature verifies under no key
C15_Witness ==
    /\ bank.state = "returned"
    /\ BankS = 2
    /\ bank.tx.message.account_keys = <<from_byte(1), Key1>>
    /\ ~VerifyingKey_from_bytes_ok(bank.tx.message.account_keys[1])
    /\ bank.tx.signatures = <<Sig(1)>>
    /\ bank.res = NotEnoughSignatures(2, 1)

\* signer i is in the key list and its key or its signature is rejected
SignerFails(tx, i) ==
    /\ i < Len(tx.message.account_keys)
    /\ i < Len(tx.signatures)
    /\ \/ ~VerifyingKey_from_bytes_ok(SignerKey(tx.message, i))
       \/ ~ed25519_verify(SignerKey(tx.message, i), serialize_message(tx.message),
                          tx.signatures[i + 1])

\* the error signer i gets when it fails
SignerError(tx, i) ==
    IF ~VerifyingKey_from_bytes_ok(SignerKey(tx.message, i))
    THEN InvalidPublicKey(i)
    ELSE SignatureVerificationFailed(i)

FailingSigners(tx) ==
    {i \in 0..(tx.message.header.num_required_signatures - 1) : SignerFails(tx, i)}

\* C16: First failing signer. When verify_signatures fails on a key or a
\* signature, the index it reports is the smallest i < S at which
\* account_keys[i] is no valid verifying key (InvalidPublicKey{i}) or
\* signatures[i] does not verify (SignatureVerificationFailed{i}); and with
\* enough signatures a failing signer always gets that report, whatever the
\* signers after it are.
C16_FirstFailingSigner ==
    bank.state = "returned" =>
        /\ bank.res.kind \in {"InvalidPublicKey", "SignatureVerificationFailed"} =>
              /\ bank.res.index \in FailingSigners(bank.tx)
              /\ \A j \in FailingSigners(bank.tx) : bank.res.index <= j
              /\ bank.res = SignerError(bank.tx, bank.res.index)
        /\ (Len(bank.tx.signatures) >= BankS /\ FailingSigners(bank.tx) # {}) =>
              \E i \in FailingSigners(bank.tx) :
                  /\ \A j \in FailingSigners(bank.tx) : i <= j
                  /\ bank.res = SignerError(bank.tx, i)

\* both signers fail and the first one is reported
C16_Witness ==
    /\ bank.state = "returned"
    /\ BankS = 2
    /\ FailingSigners(bank.tx) = {0, 1}
    /\ bank.res = SignatureVerificationFailed(0)

\* C17: Exception-free core. For every input, verify_signatures and
\* svm::execute (with the System program's decode and process inside it) end
\* with Ok or a typed error value; none of them aborts, neither by indexing
\* account_keys past its end when num_required_signatures exceeds the number
\* of keys nor by arithmetic overflow.
C17_NoAbort ==
    /\ bank.state = "returned" => bank.res.kind # "Panic"
    /\ VmReturned => vm.res.kind # "Panic"

-----------------------------------------------------------------------------
(* runtime/rpc.rs: the node. Handler threads run handle_transfer on the shared
   NodeState next to the PoH ticker thread. start() serves one request at a
   time, which is the case of a single busy handler; the handlers below may
   also overlap, as the two mutexes of NodeState provide for. *)

NumWorkers == 2
NumGenesis == 2
MaxSubmissions == 2
MaxTicks == 1

Workers == 1..NumWorkers
TickerThread == NumWorkers + 1

\* the genesis balance, in the same proportion to the u64 range for every ByteBase
GenesisLamports == U64Mod \div 4

\* b"solana-genesis"
GenesisSeed == <<115, 111, 108, 97, 110, 97, 45, 103, 101, 110, 101, 115, 105, 115>>
GenesisHashesPerTick == 2

keypairs ==
    [b \in 1..NumGenesis |-> [pubkey |-> verifying_key(Seed(b)), signing_key |-> Seed(b)]]

RECURSIVE GenesisStore(_)
GenesisStore(b) ==
    IF b = 0 THEN AccountsDB_new
    ELSE store(GenesisStore(b - 1), keypairs[b].pubkey,
               AccountSharedData(GenesisLamports, Zeros(0), SYSTEM_PROGRAM_ID))

\* a lock that is granted whoever holds a guard
lock_ignored(mutex) == TRUE

\* Mutex::lock returns once no guard is out
lock_free(mutex) == mutex = {}

\* a guard that outlives its block
guard_kept(mutex, t) == mutex

\* the guard of thread t goes out of scope at the end of its block
drop_guard(mutex, t) == mutex \ {t}

\* a pipeline that records whatever the VM returned
RecordAlways(result) == TRUE

\* match &result { Ok(()) => record, Err(_) => nothing }
ShouldRecord(result) == result.kind = "Ok"

NoTransaction == Transaction(Message(MessageHeader(0, 0, 0), <<>>, <<>>, <<>>), <<>>)

\* results of the steps a submission has not reached
BankNotRun == [kind |-> "NotRun", expected |-> -1, got |-> -1, index |-> -1]
SvmNotRun == [kind |-> "NotRun", instruction |-> -1, index |-> -1, error |-> "", disc |-> 0]

\* a submission: the request, the transaction built for it, what the Bank and the
\* VM returned, and the ledger entry recorded for it
ReqIdle ==
    [from_id |-> 0, to_id |-> 0, lamports |-> 0, tx |-> NoTransaction,
     bank |-> BankNotRun, vm_invoked |-> FALSE, working_set |-> <<>>,
     result |-> SvmNotRun, recorded |-> 0, entry |-> 0]

\* steps 2 and 3 of handle_transfer: the signed transfer transaction
BuildTransaction(from_id, to_id, lamports, recent_blockhash) ==
    LET message == Message(MessageHeader(1, 0, 1),
                           <<keypairs[from_id].pubkey, keypairs[to_id].pubkey,
                             SYSTEM_PROGRAM_ID>>,
                           recent_blockhash,
                           <<CompiledInstruction(2, <<0, 1>>, transfer_ix_data(lamports))>>)
    IN  Transaction(message,
                    <<sign(keypairs[from_id].signing_key, serialize_message(message))>>)

OthersIdleNode == vm = VmIdle /\ bank = BankIdle /\ poh_log = <<>>

\* start(): genesis, the shared state, the ticker asleep, no request in service
Init ==
    /\ overflow_checks \in BOOLEAN
    /\ db = GenesisStore(NumGenesis)
    /\ poh = PohGenerator_new(GenesisSeed, GenesisHashesPerTick)
    /\ db_lock = {} /\ poh_lock = {}
    /\ pc = [t \in Workers |-> "idle"]
    /\ req = [t \in Workers |-> ReqIdle]
    /\ ticker = [pc |-> "sleep", ticks |-> 0]
    /\ node_log = [executed |-> <<>>, submissions |-> 0, exited |-> FALSE]
    /\ OthersIdleNode

Running == ~node_log.exited

\* identifiers a request may name: the genesis accounts and one unknown to the node
RequestIds == 0..NumGenesis
RequestLamports == {GenesisLamports, 2 * GenesisLamports}

\* step 1: a request is taken up, its body parsed and its identifiers resolved;
\* an unknown identifier is answered with 400 at once
Accept(t) ==
    /\ Running /\ pc[t] = "idle"
    /\ node_log.submissions < MaxSubmissions
    /\ \E from_id \in RequestIds, to_id \in RequestIds, lamports \in RequestLamports :
          IF from_id \in DOMAIN keypairs /\ to_id \in DOMAIN keypairs
          THEN /\ req' = [req EXCEPT ![t] = [ReqIdle EXCEPT !.from_id = from_id,
                                                            !.to_id = to_id,
                                                            !.lamports = lamports]]
               /\ pc' = [pc EXCEPT ![t] = "lock_poh"]
          ELSE UNCHANGED <<req, pc>>
    /\ node_log' = [node_log EXCEPT !.submissions = @ + 1]
    /\ UNCHANGED <<overflow_checks, db, vm, poh, poh_log, bank, db_lock, poh_lock, ticker>>

\* state.poh.lock() for the recent blockhash
LockPohForHash(t) ==
    /\ Running /\ pc[t] = "lock_poh"
    /\ lock_free(poh_lock)
    /\ poh_lock' = poh_lock \cup {t}
    /\ pc' = [pc EXCEPT ![t] = "last_hash"]
    /\ UNCHANGED <<overflow_checks, db, vm, poh, poh_log, bank, req, db_lock, ticker,
                   node_log>>

\* last_hash() under the lock and the guard dropped; then the message built
\* and signed, and step 4: bank::verify_signatures, a rejection answered with 400
ReadLastHash(t) ==
    /\ Running /\ pc[t] = "last_hash"
    /\ \E tx \in {BuildTransaction(req[t].from_id, req[t].to_id, req[t].lamports,
                                    last_hash(poh))} :
       \E res \in {verify_signatures(tx)} :
          /\ req' = [req EXCEPT ![t] = IF res = BankOk
                                       THEN [@ EXCEPT !.tx = tx, !.bank = res]
                                       ELSE ReqIdle]
          /\ pc' = [pc EXCEPT ![t] = IF res = BankOk THEN "lock_db" ELSE "idle"]
    /\ poh_lock' = drop_guard(poh_lock, t)
    /\ UNCHANGED <<overflow_checks, db, vm, poh, poh_log, bank, db_lock, ticker, node_log>>

\* step 5: state.db.lock(), and svm::execute, step 1: the working set is read
\* from the store
LockDbAndLoad(t) ==
    /\ Running /\ pc[t] = "lock_db"
    /\ lock_free(db_lock)
    /\ db_lock' = db_lock \cup {t}
    /\ req' = [req EXCEPT ![t].working_set =
                              LoadWorkingSet(db, req[t].tx.message.account_keys),
                          ![t].vm_invoked = TRUE]
    /\ pc' = [pc EXCEPT ![t] = "run"]
    /\ UNCHANGED <<overflow_checks, db, vm, poh, poh_log, bank, poh_lock, ticker, node_log>>

\* svm::execute, steps 2 and 3, and the end of the block that holds the store
\* guard. An overflow abort unwinds handle_transfer and start(): the process ends.
RunAndCommit(t) ==
    /\ Running /\ pc[t] = "run"
    /\ \E run \in {RunInstructions(req[t].tx.message, req[t].working_set, 0,
                                    <<req[t].working_set>>)} :
           IF run.res.kind = "Panic"
           THEN /\ node_log' = [node_log EXCEPT !.exited = TRUE]
                /\ UNCHANGED <<db, req, pc, db_lock>>
           ELSE /\ db' = CommitIfOk(db, req[t].tx.message, run)
                /\ node_log' = [node_log EXCEPT !.executed =
                                   Append(@, [tx |-> req[t].tx, res |-> run.res])]
                /\ req' = [req EXCEPT ![t].result = run.res]
                /\ db_lock' = drop_guard(db_lock, t)
                /\ pc' = [pc EXCEPT ![t] = IF ShouldRecord(run.res) THEN "lock_poh_record"
                                           ELSE "respond"]
    /\ UNCHANGED <<overflow_checks, vm, poh, poh_log, bank, poh_lock, ticker>>

\* step 6: state.poh.lock() for the record
LockPohForRecord(t) ==
    /\ Running /\ pc[t] = "lock_poh_record"
    /\ lock_free(poh_lock)
    /\ poh_lock' = poh_lock \cup {t}
    /\ pc' = [pc EXCEPT ![t] = "record"]
    /\ UNCHANGED <<overflow_checks, db, vm, poh, poh_log, bank, req, db_lock, ticker,
                   node_log>>

\* poh.record(vec![tx]) under the lock, then the guard dropped
Record(t) ==
    /\ Running /\ pc[t] = "record"
    /\ poh' = record(poh, <<req[t].tx>>)
    /\ req' = [req EXCEPT ![t].recorded = @ + 1, ![t].entry = Len(poh'.entries)]
    /\ poh_lock' = drop_guard(poh_lock, t)
    /\ pc' = [pc EXCEPT ![t] = "respond"]
    /\ UNCHANGED <<overflow_checks, db, vm, poh_log, bank, db_lock, ticker, node_log>>

\* step 7: the response is returned and sent
Respond(t) ==
    /\ Running /\ pc[t] = "respond"
    /\ req' = [req EXCEPT ![t] = ReqIdle]
    /\ pc' = [pc EXCEPT ![t] = "idle"]
    /\ UNCHANGED <<overflow_checks, db, vm, poh, poh_log, bank, db_lock, poh_lock, ticker,
                   node_log>>

\* the ticker thread: poh_ref.lock()
TickerLock ==
    /\ Running /\ ticker.pc = "sleep"
    /\ ticker.ticks < MaxTicks
    /\ lock_free(poh_lock)
    /\ poh_lock' = poh_lock \cup {TickerThread}
    /\ ticker' = [ticker EXCEPT !.pc = "tick"]
    /\ UNCHANGED <<overflow_checks, db, vm, poh, poh_log, bank, pc, req, db_lock, node_log>>

\* poh.tick(), the guard dropped, then the sleep
TickerTick ==
    /\ Running /\ ticker.pc = "tick"
    /\ poh' = tick(poh)
    /\ poh_lock' = drop_guard(poh_lock, TickerThread)
    /\ ticker' = [pc |-> "sleep", ticks |-> ticker.ticks + 1]
    /\ UNCHANGED <<overflow_checks, db, vm, poh_log, bank, pc, req, db_lock, node_log>>

Next ==
    \/ \E t \in Workers : Accept(t)
    \/ \E t \in Workers : LockPohForHash(t)
    \/ \E t \in Workers : ReadLastHash(t)
    \/ \E t \in Workers : LockDbAndLoad(t)
    \/ \E t \in Workers : RunAndCommit(t)
    \/ \E t \in Workers : LockPohForRecord(t)
    \/ \E t \in Workers : Record(t)
    \/ \E t \in Workers : Respond(t)
    \/ TickerLock
    \/ TickerTick

Spec == Init /\ [][Next]_vars

\* threads are scheduled fairly and a mutex that keeps becoming free is handed
\* to each waiting thread
\* the steps of handler t that wait for nothing, and those that wait for a mutex
WorkerStep(t) == ReadLastHash(t) \/ RunAndCommit(t) \/ Record(t) \/ Respond(t)
WorkerLock(t) == LockPohForHash(t) \/ LockDbAndLoad(t) \/ LockPohForRecord(t)

Fairness ==
    /\ \A t \in Workers : WF_vars(WorkerStep(t)) /\ SF_vars(WorkerLock(t))
    /\ SF_vars(TickerLock) /\ WF_vars(TickerTick)

FairSpec == Init /\ [][Next]_vars /\ Fairness

-----------------------------------------------------------------------------
(* Claims about the submission pipeline (Spec, FairSpec) *)

Threads == Workers \cup {TickerThread}

RecordEntries == {i \in 1..Len(poh.entries) : IsRecord(poh.entries[i])}

ExecutedOk == {k \in 1..Len(node_log.executed) : node_log.executed[k].res = SvmOk}

\* submissions the VM accepted whose record is still to be appended
AwaitingRecord == {t \in Workers : pc[t] \in {"lock_poh_record", "record"}}

\* C7: pipeline short-circuit. A record entry for a transaction is appended only
\* after both verify_signatures and svm::execute returned Ok for it, and then
\* exactly one record entry holding exactly that transaction; if the Bank
\* rejects, the VM is not invoked; if the VM rejects, the submission appends no
\* PoH entry.
C7_ShortCircuit ==
    /\ \A t \in Workers :
          /\ req[t].vm_invoked => req[t].bank = BankOk
          /\ req[t].recorded > 0 =>
                /\ req[t].bank = BankOk /\ req[t].result = SvmOk
                /\ req[t].recorded = 1
                /\ poh.entries[req[t].entry].transactions = <<req[t].tx>>
          /\ pc[t] = "respond" => (req[t].recorded = 1 <=> req[t].result = SvmOk)
    /\ \A i \in RecordEntries :
          /\ Len(poh.entries[i].transactions) = 1
          /\ \E k \in ExecutedOk : node_log.executed[k].tx = poh.entries[i].transactions[1]
    /\ Cardinality(RecordEntries) + Cardinality(AwaitingRecord) = Cardinality(ExecutedOk)

\* one submission rejected by the VM and left out of the ledger, another
\* accepted, recorded once and about to be answered
C7_Witness ==
    /\ \E k \in 1..Len(node_log.executed) : node_log.executed[k].res.kind = "SystemProgram"
    /\ \E t \in Workers :
          /\ pc[t] = "respond" /\ req[t].result = SvmOk /\ req[t].recorded = 1
          /\ poh.entries[req[t].entry].transactions = <<req[t].tx>>
    /\ Cardinality(RecordEntries) = 1

\* the store after the first k executed transactions, run one at a time from genesis
RECURSIVE SerialStore(_)
SerialStore(k) ==
    IF k = 0 THEN GenesisStore(NumGenesis)
    ELSE execute(node_log.executed[k].tx, SerialStore(k - 1)).db

\* C8: serializable submissions. Load, execution and commit of a submission
\* happen under the account-store lock, which one thread holds at a time; the
\* store equals the one produced by executing the same transactions one at a
\* time in the order they took the lock, and each got the result it gets in
\* that serial execution.
C8_Serializable ==
    /\ Cardinality(db_lock) <= 1
    /\ \A t \in Workers : pc[t] = "run" => t \in db_lock
    /\ db = SerialStore(Len(node_log.executed))
    /\ \A k \in 1..Len(node_log.executed) :
          node_log.executed[k].res
              = execute(node_log.executed[k].tx, SerialStore(k - 1)).res

TransferOf(from_id, to_id, lamports, tx) ==
    /\ tx.message.account_keys
         = <<keypairs[from_id].pubkey, keypairs[to_id].pubkey, SYSTEM_PROGRAM_ID>>
    /\ tx.message.instructions[1].data = transfer_ix_data(lamports)

\* two opposite affordable transfers in service at the same time, both
\* executed with Ok, and both balances back at their genesis value
C8_Witness ==
    /\ \A t \in Workers : pc[t] \in {"lock_poh_record", "record", "respond"}
    /\ Len(node_log.executed) = 2
    /\ TransferOf(1, 2, GenesisLamports, node_log.executed[1].tx)
    /\ TransferOf(2, 1, GenesisLamports, node_log.executed[2].tx)
    /\ \A k \in 1..2 : node_log.executed[k].res = SvmOk
    /\ \A b \in 1..2 : db[keypairs[b].pubkey].lamports = GenesisLamports

\* C9: lock discipline. No thread holds the PoH mutex and the account-store
\* mutex at the same time; a submission holds the PoH mutex exactly while it
\* reads last_hash and while it records, and the store mutex exactly while it
\* executes, in that sequence; the ticker only ever holds the PoH mutex.
C9_LockDiscipline ==
    /\ \A th \in Threads : ~(th \in poh_lock /\ th \in db_lock)
    /\ \A t \in Workers :
          /\ t \in poh_lock <=> pc[t] \in {"last_hash", "record"}
          /\ t \in db_lock <=> pc[t] = "run"
    /\ TickerThread \notin db_lock
    /\ TickerThread \in poh_lock <=> ticker.pc = "tick"

\* one submission executing under the store mutex while the ticker holds the
\* PoH mutex and the other submission waits for it
C9_Witness ==
    /\ \E t \in Workers : pc[t] = "run" /\ db_lock = {t}
    /\ \E t \in Workers : pc[t] = "lock_poh_record"
    /\ poh_lock = {TickerThread}

\* C10: progress. Under fair scheduling and fair mutex hand-off every submission
\* that starts eventually returns its response (holding no lock), and the ticker
\* keeps appending tick entries, here up to MaxTicks of them.
C10_Progress ==
    /\ \A t \in Workers :
          (pc[t] # "idle") ~> (pc[t] = "idle" /\ t \notin db_lock /\ t \notin poh_lock)
    /\ <>(ticker.ticks = MaxTicks)


\* the ledger after a step is the ledger before it, or that with one more
\* entry at its end
ExtendsLedger ==
    /\ Len(poh'.entries) \in {Len(poh.entries), Len(poh.entries) + 1}
    /\ \A i \in 1..Len(poh.entries) : poh'.entries[i] = poh.entries[i]

\* C18: the PoH ledger is append-only. Every tick() and every record() extends
\* the entries sequence by exactly one entry at the end, the sequence before
\* the call being an unchanged prefix of the one after it; no step of the
\* generator, the ticker or the submission pipeline removes, reorders or
\* rewrites an existing entry.
C18_AppendOnly ==
    [][/\ ExtendsLedger
       /\ (TickerTick \/ \E t \in Workers : Record(t)) =>
              Len(poh'.entries) = Len(poh.entries) + 1]_vars

\* a ledger that a tick and the records of two submissions have extended
C18_Witness ==
    /\ ticker.ticks = 1
    /\ Len(poh.entries) = 3
    /\ \E t \in Workers : req[t].recorded = 1 /\ req[t].entry = 3
    /\ \E i \in 1..2 : ~IsRecord(poh.entries[i])

\* the sum of the balances of the accounts at the addresses S of a store
RECURSIVE SumBalances(_, _)
SumBalances(d, S) ==
    IF S = {} THEN 0
    ELSE LET k == CHOOSE a \in S : TRUE
         IN  d[k].lamports + SumBalances(d, S \ {k})

TotalSupply(d) == SumBalances(d, DOMAIN d)

\* C33: Total supply is conserved. After any sequence of submissions through
\* the transfer pipeline (any sender, recipient and amount among the genesis
\* identifiers, sender equal to recipient included), the sum of the balances of
\* all accounts in the store equals the genesis total.
C33_SupplyConserved == TotalSupply(db) = NumGenesis * GenesisLamports

\* the transactions the store committed, in commit order, and the recorded
\* transactions, in ledger order
Committed == SelectSeq(node_log.executed, LAMBDA e : e.res = SvmOk)
Recorded == SelectSeq(poh.entries, IsRecord)

\* C35: Ledger order matches execution order. When submissions are serviced
\* concurrently (one thread per request), if transaction T1 is committed to the
\* account store before transaction T2, then T1's record entry appears before
\* T2's record entry in the PoH ledger.
C35_LedgerOrder ==
    \A i, j \in 1..Len(Recorded) :
        i < j => \E k1, k2 \in 1..Len(Committed) :
                    /\ k1 < k2
                    /\ Committed[k1].tx = Recorded[i].transactions[1]
                    /\ Committed[k2].tx = Recorded[j].transactions[1]

\* a record step of handler t: taken under the PoH lock, for a transaction the
\* store committed, its entry put at the end of the ledger
RecordsUnderLock(t) ==
    Record(t) =>
        /\ poh_lock = {t}
        /\ \E k \in 1..Len(Committed) : Committed[k].tx = req[t].tx
        /\ Len(poh'.entries) = Len(poh.entries) + 1
        /\ SubSeq(poh'.entries, 1, Len(poh.entries)) = poh.entries
        /\ poh'.entries[Len(poh'.entries)].transactions = <<req[t].tx>>
        /\ Recorded' = Append(Recorded, poh'.entries[Len(poh'.entries)])

\* C35 as amended: the ledger order of the record entries is the order in which
\* the handlers took the PoH lock for their record. Each record entry is put at
\* the end of the ledger, under the PoH lock, after its transaction was
\* committed, so an entry recorded before another transaction commits precedes
\* that transaction's entry; the store lock is released before the PoH lock is
\* taken, so two submissions in service at the same time may be recorded in the
\* order opposite to their commits.
C35_RecordLockOrder ==
    /\ [](\A t \in AwaitingRecord : \E k \in 1..Len(Committed) : Committed[k].tx = req[t].tx)
    /\ [][\A t \in Workers : RecordsUnderLock(t)]_vars

\* two different transactions, committed in one order and recorded in the other
C35_Witness ==
    /\ Len(Committed) = 2 /\ Len(Recorded) = 2
    /\ Committed[1].tx # Committed[2].tx
    /\ Recorded[1].transactions = <<Committed[2].tx>>
    /\ Recorded[2].transactions = <<Committed[1].tx>>

\* PohGenerator::new hashes the seed: the genesis hash of the node
GenesisHash == sha256(GenesisSeed)

\* the hash the chain stands at according to the ledger
LedgerHead ==
    IF poh.entries = <<>> THEN GenesisHash
    ELSE poh.entries[Len(poh.entries)].hash

\* the transaction of record entry i is anchored at the genesis hash or at
\* the hash of an entry strictly before entry i
Anchored(i) ==
    \A k \in 1..Len(poh.entries[i].transactions) :
        LET h == poh.entries[i].transactions[k].message.recent_blockhash
        IN  \/ h = GenesisHash
            \/ \E j \in 1..(i - 1) : poh.entries[j].hash = h

\* C38: Blockhash anchoring. In every reachable state, with the ticker
\* interleaving arbitrarily, last_hash() equals SHA-256(seed) when the ledger
\* is empty and otherwise the hash of the last entry, so the recent_blockhash
\* of every transaction recorded by the submission pipeline equals the genesis
\* hash or the hash of an entry that appears strictly before that
\* transaction's own record entry in the ledger.
C38_BlockhashAnchoring ==
    /\ last_hash(poh) = LedgerHead
    /\ \A i \in RecordEntries : Anchored(i)

\* a transaction anchored at a tick's hash, recorded after a later entry was
\* put between that tick and its own record entry
C38_Witness ==
    \E i \in RecordEntries : \E j \in 1..(i - 2) :
        /\ ~IsRecord(poh.entries[j])
        /\ poh.entries[j].hash # GenesisHash
        /\ poh.entries[i].transactions[1].message.recent_blockhash = poh.entries[j].hash
        /\ \A l \in 1..(i - 1) : l # j =>
               poh.entries[l].hash # poh.entries[j].hash

-----------------------------------------------------------------------------
(* The store specification: store() and delete() on a fresh AccountsDB *)

MaxOps == 3

DbAddresses == {Alice, Bob}
DbAccounts ==
    {DefaultAccount, AccountSharedData(1, <<>>, SYSTEM_PROGRAM_ID),
     AccountSharedData(0, <<1>>, Program)}

OthersIdleDb ==
    /\ overflow_checks = FALSE /\ vm = VmIdle
    /\ poh = PohIdle /\ poh_log = <<>> /\ bank = BankIdle
    /\ pc = NodeIdle /\ req = NodeIdle /\ db_lock = NodeIdle /\ poh_lock = NodeIdle
    /\ ticker = NodeIdle

\* node_log lists the calls made so far
InitDb ==
    /\ db = AccountsDB_new
    /\ node_log = <<>>
    /\ OthersIdleDb

DbStore(pubkey, account) ==
    /\ Len(node_log) < MaxOps
    /\ db' = store(db, pubkey, account)
    /\ node_log' = Append(node_log, [op |-> "store", pubkey |-> pubkey, account |-> account])
    /\ UNCHANGED <<overflow_checks, vm, poh, poh_log, bank, pc, req, db_lock, poh_lock,
                   ticker>>

DbDelete(pubkey) ==
    /\ Len(node_log) < MaxOps
    /\ db' = delete(db, pubkey)
    /\ node_log' = Append(node_log, [op |-> "delete", pubkey |-> pubkey,
                                     account |-> DefaultAccount])
    /\ UNCHANGED <<overflow_checks, vm, poh, poh_log, bank, pc, req, db_lock, poh_lock,
                   ticker>>

NextDb ==
    \/ \E pubkey \in DbAddresses, account \in DbAccounts : DbStore(pubkey, account)
    \/ \E pubkey \in DbAddresses : DbDelete(pubkey)

SpecDb == InitDb /\ [][NextDb]_vars

-----------------------------------------------------------------------------
(* Claims about the account store (SpecDb) *)

\* what the calls made so far leave at an address: the account of the last
\* store on it, or nothing when there was none or a delete came after it
RECURSIVE LastWrite(_, _)
LastWrite(calls, pubkey) ==
    IF calls = <<>> THEN None
    ELSE LET last == calls[Len(calls)]
         IN  IF last.pubkey # pubkey THEN LastWrite(SubSeq(calls, 1, Len(calls) - 1), pubkey)
             ELSE IF last.op = "store" THEN Some(last.account)
             ELSE None

PlainMap ==
    /\ \A a \in DbAddresses :
          /\ load(db, a) = LastWrite(node_log, a)
          /\ contains(db, a) <=> load(db, a) # None
    /\ len(db) = Cardinality({a \in DbAddresses : load(db, a) # None})

PlainMapStep ==
    /\ \A a \in DbAddresses, x \in DbAccounts :
          DbStore(a, x) =>
              /\ load(db', a) = Some(x)
              /\ \A b \in DbAddresses \ {a} : load(db', b) = load(db, b)
    /\ \A a \in DbAddresses :
          DbDelete(a) =>
              /\ load(db', a) = None
              /\ ~contains(db', a)
              /\ ~contains(db, a) => db' = db
              /\ delete(db', a) = db'
              /\ \A b \in DbAddresses \ {a} : load(db', b) = load(db, b)

\* C19: the account store behaves as a plain address-keyed map under any
\* sequence of operations. After store(a, x) load(a) returns x whatever was
\* there before; after delete(a) load(a) returns nothing and contains(a) is
\* false, and deleting an absent address changes nothing; contains(a) is true
\* exactly when load(a) returns an account; len() is the number of distinct
\* addresses present; store and delete on a never change what load returns for
\* another address.
C19_PlainMap == []PlainMap /\ [][PlainMapStep]_vars

\* an address stored and then deleted, next to another address that keeps the
\* account stored before
C19_Witness ==
    /\ Len(node_log) = 3
    /\ node_log[1].op = "store" /\ node_log[1].pubkey = Bob
    /\ node_log[2].op = "store" /\ node_log[2].pubkey = Alice
    /\ node_log[3].op = "delete" /\ node_log[3].pubkey = Alice
    /\ load(db, Alice) = None
    /\ load(db, Bob) = Some(node_log[1].account)
    /\ len(db) = 1

-----------------------------------------------------------------------------
(* The encoding specification: serialize_message on two messages *)

\* account lists and payloads up to and past what their length prefixes hold
EncAccounts == {<<>>, <<0>>, <<0, 1>>, [i \in 1..U8Mod |-> IF i = 2 THEN 1 ELSE 0]}
EncData == {<<>>, <<2, 0>>, Zeros(U8Mod), Zeros(U16Mod)}

EncInstructions == {CompiledInstruction(2, a, d) : a \in EncAccounts, d \in EncData}

EncInstructionLists ==
    {<<>>} \cup {<<i>> : i \in EncInstructions}
           \cup {[k \in 1..U8Mod |-> CompiledInstruction(2, <<>>, <<>>)]}

EncKeyLists ==
    {<<>>, <<Alice, Bob, SYSTEM_PROGRAM_ID>>, [k \in 1..U8Mod |-> from_byte(k - 1)]}

EncMessages ==
    {Message(MessageHeader(1, 0, 1), keys, Zeros(PUBKEY_BYTES), ixs) :
        keys \in EncKeyLists, ixs \in EncInstructionLists}

EncIdle == [bytes |-> <<>>, other_bytes |-> <<>>]

OthersIdleEnc ==
    /\ overflow_checks = FALSE /\ db = AccountsDB_new /\ vm = VmIdle
    /\ poh = PohIdle /\ poh_log = <<>>
    /\ pc = NodeIdle /\ req = NodeIdle /\ db_lock = NodeIdle /\ poh_lock = NodeIdle
    /\ ticker = NodeIdle /\ node_log = <<>>

\* bank holds two messages and, once serialized, the bytes of each
InitEnc ==
    /\ \E msg \in EncMessages, other \in EncMessages :
          bank = [state |-> "called", tx |-> Transaction(msg, <<>>),
                  other |-> Transaction(other, <<>>), res |-> EncIdle]
    /\ OthersIdleEnc

Serialize ==
    /\ bank.state = "called"
    /\ bank' = [bank EXCEPT !.state = "returned",
                            !.res = [bytes |-> serialize_message(bank.tx.message),
                                     other_bytes |-> serialize_message(bank.other.message)]]
    /\ UNCHANGED <<overflow_checks, db, vm, poh, poh_log, pc, req, db_lock, poh_lock,
                   ticker, node_log>>

NextEnc == Serialize

SpecEnc == InitEnc /\ [][NextEnc]_vars

-----------------------------------------------------------------------------
(* Claims about the canonical encoding (SpecEnc) *)

\* where the instruction count and instruction k (1-based) start in the bytes
\* of msg (0-based offsets)
InstructionCountOffset(msg) == 4 + PUBKEY_BYTES * Len(msg.account_keys) + PUBKEY_BYTES

RECURSIVE InstructionOffset(_, _)
InstructionOffset(msg, k) ==
    IF k = 1 THEN InstructionCountOffset(msg) + 1
    ELSE InstructionOffset(msg, k - 1) + 4 + Len(msg.instructions[k - 1].accounts)
                                       + Len(msg.instructions[k - 1].data)

\* every length prefix in bytes is the length of the sequence of msg it precedes
PrefixesExact(msg, bytes) ==
    /\ bytes[4] = Len(msg.account_keys)
    /\ bytes[InstructionCountOffset(msg) + 1] = Len(msg.instructions)
    /\ \A k \in 1..Len(msg.instructions) :
          LET at == InstructionOffset(msg, k)
              n == Len(msg.instructions[k].accounts)
          IN  /\ bytes[at + 2] = n
              /\ from_le_bytes(Slice(bytes, at + 2 + n, at + 4 + n))
                   = Len(msg.instructions[k].data)

\* C20: the canonical encoding is lossless. For every Message, each length
\* prefix serialize_message writes (key count, instruction count and
\* per-instruction account count as one byte each, data_len as two
\* little-endian bytes) equals the length of the sequence that follows it, and
\* two different messages never serialize to the same bytes, so that the
\* message can be recovered from its bytes.
C20_Lossless ==
    bank.state = "returned" =>
        /\ PrefixesExact(bank.tx.message, bank.res.bytes)
        /\ bank.tx.message # bank.other.message => bank.res.bytes # bank.res.other_bytes

-----------------------------------------------------------------------------
(* The classification specification: is_signer and is_writable on any header *)

MaxKeys == 4
MaxIndex == 4

\* messages of every key-list length with every header that fits in its bytes
RoleMessages ==
    {Message(MessageHeader(s, rs, ru), [k \in 1..n |-> from_byte(k)],
             Zeros(PUBKEY_BYTES), <<>>) :
        s \in 0..(U8Mod - 1), rs \in 0..(U8Mod - 1), ru \in 0..(U8Mod - 1),
        n \in 0..MaxKeys}

RolesIdle == [is_signer |-> FALSE, is_writable |-> BoolOk(FALSE)]

OthersIdleRoles ==
    /\ db = AccountsDB_new /\ vm = VmIdle
    /\ poh = PohIdle /\ poh_log = <<>>
    /\ pc = NodeIdle /\ req = NodeIdle /\ db_lock = NodeIdle /\ poh_lock = NodeIdle
    /\ ticker = NodeIdle /\ node_log = <<>>

\* bank holds the message, the index asked about and the two answers
InitRoles ==
    /\ overflow_checks \in BOOLEAN
    /\ \E message \in RoleMessages, index \in 0..MaxIndex :
          bank = [state |-> "called", tx |-> Transaction(message, <<>>),
                  index |-> index, res |-> RolesIdle]
    /\ OthersIdleRoles

\* tx.message.is_writable(i), tx.message.is_signer(i)
Classify ==
    /\ bank.state = "called"
    /\ bank' = [bank EXCEPT !.state = "returned",
                            !.res = [is_signer |-> is_signer(bank.tx.message, bank.index),
                                     is_writable |-> is_writable(bank.tx.message, bank.index)]]
    /\ UNCHANGED <<overflow_checks, db, vm, poh, poh_log, pc, req, db_lock, poh_lock,
                   ticker, node_log>>

NextRoles == Classify

SpecRoles == InitRoles /\ [][NextRoles]_vars

-----------------------------------------------------------------------------
(* Claims about the account roles (SpecRoles) *)

RolesN == Len(bank.tx.message.account_keys)
RolesS == bank.tx.message.header.num_required_signatures
RolesRs == bank.tx.message.header.num_readonly_signed_accounts
RolesRu == bank.tx.message.header.num_readonly_unsigned_accounts

\* the header fits the key list and the index is one of its positions
WellFormedRoles ==
    /\ RolesS + RolesRs + RolesRu <= RolesN
    /\ RolesRs <= RolesS
    /\ RolesRu <= RolesN - RolesS
    /\ bank.index < RolesN

\* C14: Role classification. For every key-list length N and header (S, Rs, Ru)
\* with S + Rs + Ru <= N, Rs <= S, Ru <= N - S, and every index i < N,
\* is_signer(i) is true exactly when i < S, and is_writable(i) returns true
\* exactly when i < S - Rs or S <= i < N - Ru.
C14_RoleClassification ==
    (bank.state = "returned" /\ WellFormedRoles) =>
        /\ bank.res.is_signer = (bank.index < RolesS)
        /\ bank.res.is_writable.kind = "Ok"
        /\ bank.res.is_writable.value =
             (\/ bank.index < RolesS - RolesRs
              \/ (RolesS <= bank.index /\ bank.index < RolesN - RolesRu))

\* a header with all four groups non-empty, asked about its read-only non-signer
C14_Witness ==
    /\ bank.state = "returned"
    /\ WellFormedRoles
    /\ RolesS - RolesRs >= 1 /\ RolesRs >= 1
    /\ RolesN - RolesS - RolesRu >= 1 /\ RolesRu >= 1
    /\ bank.index = RolesN - 1
    /\ ~bank.res.is_signer
    /\ bank.res.is_writable = BoolOk(FALSE)

-----------------------------------------------------------------------------
(* The copy-on-write specification: clones of one AccountSharedData and their
   data buffers. db maps each holder of a copy to its account, whose data
   field is the address of an Arc<Vec<u8>> allocation; vm.heap maps the live
   allocations to their bytes and strong counts. *)

MaxSpace == 2

\* the holders a copy passes through in execute: the store, the working set
\* and the slice handed to the program
Holders == {"store", "working_set", "ix_accounts"}
Pointers == 1..Cardinality(Holders)

Shared(ptr) ==
    [lamports |-> 0, data |-> ptr, owner |-> SYSTEM_PROGRAM_ID,
     executable |-> FALSE, rent_epoch |-> 0]

ArcNew(bytes) == [data |-> bytes, strong |-> 1]

\* Vec::resize(new_len, 0)
resize(bytes, new_len) ==
    [i \in 1..new_len |-> IF i <= Len(bytes) THEN bytes[i] ELSE 0]

\* the allocation loses one owner and is freed with its last one
ArcDrop(heap, ptr) ==
    IF heap[ptr].strong = 1
    THEN [p \in (DOMAIN heap) \ {ptr} |-> heap[p]]
    ELSE [heap EXCEPT ![ptr].strong = @ - 1]

\* Arc::clone
ArcClone(heap, ptr) == [heap EXCEPT ![ptr].strong = @ + 1]

FreePointer(heap) == CHOOSE p \in Pointers \ DOMAIN heap : \A q \in Pointers \ DOMAIN heap : p <= q

\* a make_mut that hands out the shared allocation itself
make_mut_in_place(heap, ptr) == [heap |-> heap, ptr |-> ptr]

\* Arc::make_mut: the allocation itself when this is its only owner, a fresh
\* copy of it otherwise
make_mut(heap, ptr) ==
    IF heap[ptr].strong = 1
    THEN [heap |-> heap, ptr |-> ptr]
    ELSE LET fresh == FreePointer(heap)
         IN  [heap |-> [p \in (DOMAIN heap) \cup {fresh} |->
                           IF p = fresh THEN ArcNew(heap[ptr].data)
                           ELSE IF p = ptr THEN [heap[ptr] EXCEPT !.strong = @ - 1]
                           ELSE heap[p]],
              ptr |-> fresh]

\* account.data()
data(heap, account) == heap[account.data].data

CowIdle == [op |-> "new", holder |-> "store"]

OthersIdleCow ==
    /\ overflow_checks = FALSE
    /\ poh = PohIdle /\ poh_log = <<>> /\ bank = BankIdle
    /\ pc = NodeIdle /\ req = NodeIdle /\ db_lock = NodeIdle /\ poh_lock = NodeIdle
    /\ ticker = NodeIdle /\ node_log = <<>>

\* AccountSharedData::new(.., data_len, ..) held by the store
InitCow ==
    /\ \E data_len \in 0..MaxSpace :
          vm = [heap |-> (1 :> ArcNew(Zeros(data_len))), last |-> CowIdle]
    /\ db = ("store" :> Shared(1))
    /\ OthersIdleCow

\* to = from.clone(): the value to held before, if any, is dropped
CowClone(from, to) ==
    /\ from \in DOMAIN db /\ to \in Holders \ {from}
    /\ LET cloned == ArcClone(vm.heap, db[from].data)
           heap == IF to \in DOMAIN db THEN ArcDrop(cloned, db[to].data) ELSE cloned
       IN  /\ db' = [h \in (DOMAIN db) \cup {to} |-> IF h = to THEN db[from] ELSE db[h]]
           /\ vm' = [heap |-> heap, last |-> [op |-> "clone", holder |-> to]]
    /\ UNCHANGED <<overflow_checks, poh, poh_log, bank, pc, req, db_lock, poh_lock,
                   ticker, node_log>>

\* holder.data_mut().resize(space, 0)
CowResize(holder, space) ==
    /\ holder \in DOMAIN db
    /\ LET made == make_mut(vm.heap, db[holder].data)
       IN  /\ db' = [db EXCEPT ![holder].data = made.ptr]
           /\ vm' = [heap |-> [made.heap EXCEPT ![made.ptr].data = resize(@, space)],
                     last |-> [op |-> "data_mut", holder |-> holder]]
    /\ UNCHANGED <<overflow_checks, poh, poh_log, bank, pc, req, db_lock, poh_lock,
                   ticker, node_log>>

\* holder.data_mut()[0] = byte
CowWrite(holder, byte) ==
    /\ holder \in DOMAIN db
    /\ Len(data(vm.heap, db[holder])) > 0
    /\ LET made == make_mut(vm.heap, db[holder].data)
       IN  /\ db' = [db EXCEPT ![holder].data = made.ptr]
           /\ vm' = [heap |-> [made.heap EXCEPT ![made.ptr].data[1] = byte],
                     last |-> [op |-> "data_mut", holder |-> holder]]
    /\ UNCHANGED <<overflow_checks, poh, poh_log, bank, pc, req, db_lock, poh_lock,
                   ticker, node_log>>

\* a clone goes out of scope; the store keeps its copy
CowDrop(holder) ==
    /\ holder \in (DOMAIN db) \ {"store"}
    /\ db' = [h \in (DOMAIN db) \ {holder} |-> db[h]]
    /\ vm' = [heap |-> ArcDrop(vm.heap, db[holder].data),
              last |-> [op |-> "drop", holder |-> holder]]
    /\ UNCHANGED <<overflow_checks, poh, poh_log, bank, pc, req, db_lock, poh_lock,
                   ticker, node_log>>

NextCow ==
    \/ \E from \in Holders, to \in Holders : CowClone(from, to)
    \/ \E holder \in Holders, space \in 0..MaxSpace : CowResize(holder, space)
    \/ \E holder \in Holders, byte \in 0..1 : CowWrite(holder, byte)
    \/ \E holder \in Holders : CowDrop(holder)

SpecCow == InitCow /\ [][NextCow]_vars

-----------------------------------------------------------------------------
(* Claims about the shared account (SpecCow) *)

\* every copy points at a live allocation and every strong count is the number
\* of copies that point at the allocation
HeapSound ==
    /\ \A h \in DOMAIN db : db[h].data \in DOMAIN vm.heap
    /\ \A p \in DOMAIN vm.heap :
          vm.heap[p].strong = Cardinality({h \in DOMAIN db : db[h].data = p})

\* a step through data_mut of one copy leaves the data of every other copy as
\* it was
OthersKeepData ==
    \A holder \in Holders :
        (\/ \E space \in 0..MaxSpace : CowResize(holder, space)
         \/ \E byte \in 0..1 : CowWrite(holder, byte)) =>
            \A other \in (DOMAIN db) \ {holder} :
                /\ other \in DOMAIN db'
                /\ data(vm'.heap, db'[other]) = data(vm.heap, db[other])

\* C21: copy-on-write isolation. After cloning a shared account, mutating the
\* data of one copy through data_mut() (the resize of CreateAccount on a
\* working-set clone, a byte written) never changes the data observed through
\* any other copy, the copy still held by the account store included.
C21_CowIsolation == []HeapSound /\ [][OthersKeepData]_vars

\* the working-set copy has just been resized away from the buffer it shared
\* with the store's copy, which still reads its own bytes
C21_Witness ==
    /\ vm.last = [op |-> "data_mut", holder |-> "working_set"]
    /\ "working_set" \in DOMAIN db
    /\ db["working_set"].data # db["store"].data
    /\ data(vm.heap, db["store"]) = <<0>>
    /\ data(vm.heap, db["working_set"]) = <<0, 0>>
    /\ vm.heap[db["store"].data].strong = 1

-----------------------------------------------------------------------------
(* The System program specification: process() called on slices of a pool of
   accounts, as a caller holding `&mut [AccountSharedData]` does *)

MaxCalls == 3

SysAccounts ==
    {AccountSharedData(l, <<>>, SYSTEM_PROGRAM_ID) : l \in {0, 1, 2, U64Max}}
    \cup {AccountSharedData(l, <<>>, Program) : l \in {0, 1}}
    \cup {AccountSharedData(0, <<0>>, SYSTEM_PROGRAM_ID)}
    \cup {[lamports |-> 2, data |-> <<1>>, owner |-> SYSTEM_PROGRAM_ID,
           executable |-> TRUE, rent_epoch |-> 1]}

SysPools ==
    {<<a, b, AccountSharedData(1, <<>>, Program)>> :
        a \in SysAccounts, b \in SysAccounts}

SysInstructions ==
    {Transfer(0), Transfer(1),
     CreateAccount(1, 0, Program), CreateAccount(1, 1, SYSTEM_PROGRAM_ID),
     CreateAccount(0, MaxSpace, Program), CreateAccount(1, U64Max, Program),
     Assign(Program), Assign(SYSTEM_PROGRAM_ID)}

\* the pool entries a call borrows, in slice order
SysSlices ==
    {<<>>, <<1>>, <<1, 2>>, <<2, 1>>, <<3, 1>>, <<1, 2, 3>>}

SysNoCall == [ix |-> NoInstruction, slice |-> <<>>, before |-> <<>>,
              out |-> ProcessOut("Ok", <<>>)]

OthersIdleSys ==
    /\ db = AccountsDB_new /\ poh = PohIdle /\ poh_log = <<>> /\ bank = BankIdle
    /\ pc = NodeIdle /\ req = NodeIdle /\ db_lock = NodeIdle /\ poh_lock = NodeIdle
    /\ ticker = NodeIdle

\* vm holds the pool, the last call and the thread's state; node_log lists the
\* pool entries on which an Assign to a non-zero owner has succeeded
InitSys ==
    /\ overflow_checks \in BOOLEAN
    /\ \E pool \in SysPools :
          vm = [state |-> "ready", pool |-> pool, calls |-> 0, last |-> SysNoCall]
    /\ node_log = {}
    /\ OthersIdleSys

\* process(&ix, &mut slice): the slice is mutated in place on Ok; every error
\* is returned before the first mutation; a panic unwinds the caller
SysProcess(ix, slice) ==
    /\ vm.state = "ready"
    /\ vm.calls < MaxCalls
    /\ LET accounts == [p \in 1..Len(slice) |-> vm.pool[slice[p]]]
           out == process(ix, accounts)
           Position(i) == CHOOSE p \in 1..Len(slice) : slice[p] = i
           pool == [i \in 1..Len(vm.pool) |->
                       IF out.res = "Ok" /\ \E p \in 1..Len(slice) : slice[p] = i
                       THEN out.accounts[Position(i)] ELSE vm.pool[i]]
       IN  /\ vm' = [state |-> IF out.res = "Panic" THEN "panicked" ELSE "ready",
                     pool |-> pool, calls |-> vm.calls + 1,
                     last |-> [ix |-> ix, slice |-> slice, before |-> accounts,
                               out |-> out]]
           /\ node_log' = IF ix.type = "Assign" /\ out.res = "Ok"
                             /\ ix.owner # SYSTEM_PROGRAM_ID
                          THEN node_log \cup {slice[1]} ELSE node_log
    /\ UNCHANGED <<overflow_checks, db, poh, poh_log, bank, pc, req, db_lock, poh_lock,
                   ticker>>

NextSys == \E ix \in SysInstructions, slice \in SysSlices : SysProcess(ix, slice)

SpecSys == InitSys /\ [][NextSys]_vars

\* the last call, its instruction and the slice it was given and left
SysCalled(type) == vm.calls > 0 /\ vm.last.ix.type = type
SysIn == vm.last.before
SysOut == vm.last.out.accounts
SysRes == vm.last.out.res

\* fields other than the balance
SameButLamports(a, b) == [a EXCEPT !.lamports = 0] = [b EXCEPT !.lamports = 0]

\* C27: Transfer{n} on a slice of at least 2 accounts succeeds exactly when
\* accounts[0] is System-owned and accounts[0].balance >= n. It fails with
\* NotEnoughAccounts for fewer than 2 accounts, AccountNotOwnedBySystem when
\* accounts[0] has a non-zero owner, InsufficientFunds when accounts[0].balance
\* < n. On success accounts[0] has n less, accounts[1] has n more, and owner,
\* data, executable and rent_epoch of every account of the slice are unchanged.
C27_Transfer ==
    SysCalled("Transfer") =>
        LET n == vm.last.ix.lamports
            payable == SysIn[1].owner = SYSTEM_PROGRAM_ID /\ SysIn[1].lamports >= n
        IN  IF Len(SysIn) < 2 THEN SysRes = "NotEnoughAccounts"
            ELSE /\ SysRes = "Ok" <=> payable
                 /\ SysIn[1].owner # SYSTEM_PROGRAM_ID
                       => SysRes = "AccountNotOwnedBySystem"
                 /\ (SysIn[1].owner = SYSTEM_PROGRAM_ID /\ SysIn[1].lamports < n)
                       => SysRes = "InsufficientFunds"
                 /\ SysRes = "Ok" =>
                       /\ Len(SysOut) = Len(SysIn)
                       /\ SysOut[1].lamports = SysIn[1].lamports - n
                       /\ SysOut[2].lamports = SysIn[2].lamports + n
                       /\ \A p \in 1..Len(SysIn) :
                             /\ SameButLamports(SysOut[p], SysIn[p])
                             /\ p > 2 => SysOut[p] = SysIn[p]

\* C28: CreateAccount{balance, space, owner} on a slice of at least 2 accounts
\* succeeds exactly when accounts[1] has zero balance and zero-length data,
\* accounts[0] is System-owned and accounts[0].balance >= balance; otherwise it
\* returns AccountAlreadyInUse, AccountNotOwnedBySystem or InsufficientFunds
\* respectively (NotEnoughAccounts for fewer than 2 accounts). On success
\* accounts[0].balance decreases by balance and accounts[1] has balance =
\* balance, owner = owner and data = space zero bytes.
C28_CreateAccount ==
    SysCalled("CreateAccount") =>
        LET ix == vm.last.ix
            unused == SysIn[2].lamports = 0 /\ SysIn[2].data = <<>>
            owned == SysIn[1].owner = SYSTEM_PROGRAM_ID
            funded == SysIn[1].lamports >= ix.lamports
        IN  IF Len(SysIn) < 2 THEN SysRes = "NotEnoughAccounts"
            ELSE /\ SysRes = "Ok" <=> (unused /\ owned /\ funded)
                 /\ ~unused => SysRes = "AccountAlreadyInUse"
                 /\ (unused /\ ~owned) => SysRes = "AccountNotOwnedBySystem"
                 /\ (unused /\ owned /\ ~funded) => SysRes = "InsufficientFunds"
                 /\ SysRes = "Ok" =>
                       /\ SysOut[1].lamports = SysIn[1].lamports - ix.lamports
                       /\ SysOut[2].lamports = ix.lamports
                       /\ SysOut[2].owner = ix.owner
                       /\ Len(SysOut[2].data) = ix.space
                       /\ \A i \in 1..ix.space : SysOut[2].data[i] = 0

\* the outcome of an Assign call
AssignOutcome ==
    SysCalled("Assign") =>
        /\ SysRes = "Ok" <=> (Len(SysIn) >= 1 /\ SysIn[1].owner = SYSTEM_PROGRAM_ID)
        /\ SysRes = "Ok" => SysOut = [SysIn EXCEPT ![1].owner = vm.last.ix.owner]

\* a call that is a Transfer from, or an Assign on, a pool entry on which an
\* Assign to a non-zero owner succeeded before
OnAssigned(call, assigned) ==
    /\ Len(call.slice) >= 1 /\ call.slice[1] \in assigned
    /\ \/ call.ix.type = "Assign"
       \/ call.ix.type = "Transfer" /\ Len(call.slice) >= 2

AssignedStaysAssigned ==
    (vm'.calls = vm.calls + 1 /\ OnAssigned(vm'.last, node_log))
        => vm'.last.out.res = "AccountNotOwnedBySystem"

\* C29: Assign{owner} succeeds exactly when the slice has at least 1 account
\* and accounts[0] is System-owned; on success accounts[0].owner becomes owner
\* and its balance, data, executable and rent_epoch are unchanged. Once an
\* account has been assigned a non-zero owner, every later Transfer from it and
\* every later Assign on it fails with AccountNotOwnedBySystem.
C29_Assign == []AssignOutcome /\ [][AssignedStaysAssigned]_vars

-----------------------------------------------------------------------------
(* The decode specification: decode() applied to one byte string *)

\* payloads with trailing bytes, and strings whose first four bytes are not a
\* known discriminator
DecodePayloads ==
    {create_account_ix_data(6, 7, Program) \o <<3, 1>>,
     create_account_ix_data(U64Max, 0, SYSTEM_PROGRAM_ID),
     transfer_ix_data(6) \o <<1, 2, 3>>,
     transfer_ix_data(U64Max),
     assign_ix_data(Program) \o <<2>>,
     assign_ix_data(from_byte(1)) \o Zeros(20),
     to_le_bytes(1, 4) \o Zeros(50),
     <<0, 0, 0, 1>> \o Zeros(50),
     <<2, 1, 0, 0>> \o to_le_bytes(6, 8),
     <<0, 2, 0, 0>> \o Program,
     <<3, 3, 3, 3>> \o <<1>>}

\* every prefix of every payload
DecodeInputs == UNION {{SubSeq(d, 1, n) : n \in 0..Len(d)} : d \in DecodePayloads}

OthersIdleDecode ==
    /\ overflow_checks = FALSE /\ db = AccountsDB_new
    /\ poh = PohIdle /\ poh_log = <<>> /\ bank = BankIdle
    /\ pc = NodeIdle /\ req = NodeIdle /\ db_lock = NodeIdle /\ poh_lock = NodeIdle
    /\ ticker = NodeIdle /\ node_log = NodeIdle

InitDecode ==
    /\ \E d \in DecodeInputs :
          vm = [state |-> "ready", data |-> d, res |-> DecodeErr("", 0)]
    /\ OthersIdleDecode

Decode ==
    /\ vm.state = "ready"
    /\ vm' = [vm EXCEPT !.state = "decoded", !.res = decode(vm.data)]
    /\ UNCHANGED <<overflow_checks, db, poh, poh_log, bank, pc, req, db_lock, poh_lock,
                   ticker, node_log>>

NextDecode == Decode

SpecDecode == InitDecode /\ [][NextDecode]_vars

\* the little-endian unsigned integer in d[a..b]
RECURSIVE LittleEndian(_, _, _)
LittleEndian(d, a, b) ==
    IF a >= b THEN 0 ELSE d[a + 1] + ByteBase * LittleEndian(d, a + 1, b)

\* the bytes d[a..b]
Bytes(d, a, b) == [i \in 1..(b - a) |-> d[a + i]]

\* the length a discriminator requires
RequiredLen(disc) ==
    CASE disc = 0 -> 52 [] disc = 2 -> 12 [] disc = 8 -> 36 [] OTHER -> 4

\* C30: Instruction decoding. decode(d) returns InvalidInstructionData when
\* len(d) < 4 or when the little-endian u32 discriminator in d[0..4] is 0, 2 or
\* 8 and len(d) is below 52, 12 or 36 respectively; UnknownInstruction(disc)
\* when len(d) >= 4 and disc is not 0, 2 or 8; otherwise CreateAccount, Transfer
\* or Assign with the fields read from the fixed offsets (u64 little-endian
\* balance at 4..12, space at 12..20, owner at 20..52; amount at 4..12; owner
\* at 4..36), whatever bytes follow.
C30_Decode ==
    vm.state = "decoded" =>
        LET d == vm.data
            disc == LittleEndian(d, 0, 4)
        IN  IF Len(d) < 4 THEN vm.res = DecodeErr("InvalidInstructionData", 0)
            ELSE IF disc \notin {0, 2, 8}
                 THEN vm.res = DecodeErr("UnknownInstruction", disc)
            ELSE IF Len(d) < RequiredLen(disc)
                 THEN vm.res = DecodeErr("InvalidInstructionData", 0)
            ELSE /\ vm.res.ok
                 /\ disc = 0 => vm.res.ix = CreateAccount(LittleEndian(d, 4, 12),
                                                          LittleEndian(d, 12, 20),
                                                          Bytes(d, 20, 52))
                 /\ disc = 2 => vm.res.ix = Transfer(LittleEndian(d, 4, 12))
                 /\ disc = 8 => vm.res.ix = Assign(Bytes(d, 4, 36))

\* a CreateAccount payload followed by two more bytes decodes to its fields
C30_Witness ==
    /\ vm.state = "decoded"
    /\ Len(vm.data) = 54
    /\ vm.res = DecodeOk(CreateAccount(6, 7, Program))

-----------------------------------------------------------------------------
(* The submission specification: bank::verify_signatures, then svm::execute if
   it returned Ok, on any signed transaction and store (steps 4 and 5 of
   handle_transfer) *)

\* stores holding a System-owned balance at both derived keys
SubmitStores ==
    {[k \in {Key1, Key2} |->
         AccountSharedData(IF k = Key1 THEN a ELSE b, <<>>, SYSTEM_PROGRAM_ID)] :
        a \in 0..2, b \in 0..2}

SubmitSeeds == <<Seed(1), Seed(2)>>

SubmitInstructions ==
    {CompiledInstruction(2, a, transfer_ix_data(1)) : a \in {<<0, 1>>, <<1, 0>>}}
    \cup {CompiledInstruction(2, <<1, 0>>, create_account_ix_data(1, 0, Program)),
          CompiledInstruction(2, <<1>>, assign_ix_data(Program))}

SubmitInstructionLists ==
    {<<>>} \cup {<<i>> : i \in SubmitInstructions}
           \cup {<<i, j>> : i \in SubmitInstructions, j \in SubmitInstructions}

\* messages naming the two derived keys in either order, one or both as signers
SubmitMessages ==
    {[seeds |-> <<SubmitSeeds[first], SubmitSeeds[3 - first]>>,
      message |-> Message(MessageHeader(s, 0, 1),
                          <<verifying_key(SubmitSeeds[first]),
                            verifying_key(SubmitSeeds[3 - first]), SYSTEM_PROGRAM_ID>>,
                          Zeros(PUBKEY_BYTES), ixs)] :
        first \in 1..2, s \in 1..2, ixs \in SubmitInstructionLists}

\* each required signer signs the message; or the first signature is by the
\* other seed
SubmitTransactions ==
    {Transaction(m.message,
                 [i \in 1..m.message.header.num_required_signatures |->
                     sign(IF forged /\ i = 1 THEN m.seeds[2] ELSE m.seeds[i],
                          serialize_message(m.message))]) :
        m \in SubmitMessages, forged \in BOOLEAN}

OthersIdleSubmit ==
    /\ poh = PohIdle /\ poh_log = <<>>
    /\ pc = NodeIdle /\ req = NodeIdle /\ db_lock = NodeIdle /\ poh_lock = NodeIdle
    /\ ticker = NodeIdle /\ node_log = <<>>

InitSubmit ==
    /\ overflow_checks \in BOOLEAN
    /\ db \in SubmitStores
    /\ \E tx \in SubmitTransactions :
          /\ bank = [state |-> "called", tx |-> tx, res |-> BankOk]
          /\ vm = [state |-> "built", tx |-> tx, pre |-> db, res |-> SvmOk, trace |-> <<>>]
    /\ OthersIdleSubmit

\* step 4: a rejection is answered at once, the VM is not called
SubmitVerify ==
    /\ bank.state = "called"
    /\ LET res == verify_signatures(bank.tx) IN
         /\ bank' = [bank EXCEPT !.state = "returned", !.res = res]
         /\ vm' = [vm EXCEPT !.state = IF res = BankOk THEN "called" ELSE "rejected"]
    /\ UNCHANGED <<overflow_checks, db, poh, poh_log, pc, req, db_lock, poh_lock,
                   ticker, node_log>>

\* step 5 is VmExecute
NextSubmit == SubmitVerify \/ VmExecute

SpecSubmit == InitSubmit /\ [][NextSubmit]_vars

\* the balance at an address, absent addresses counting as the default account
BalanceAt(d, pubkey) == load_or_default(d, pubkey).lamports

\* indexes (0-based) of account_keys whose balance in the store went down
Debited ==
    {i \in 0..(Len(vm.tx.message.account_keys) - 1) :
        BalanceAt(db, vm.tx.message.account_keys[i + 1])
            < BalanceAt(vm.pre, vm.tx.message.account_keys[i + 1])}

\* C34: Debits are authorised. For every transaction for which
\* verify_signatures returns Ok and svm::execute then returns Ok, every account
\* whose balance is lower after execution than before is at an index
\* i < num_required_signatures of account_keys: its key signed the transaction.
C34_DebitsAuthorised ==
    (VmReturned /\ bank.res = BankOk /\ vm.res = SvmOk) =>
        \A i \in Debited : is_signer(vm.tx.message, i)

====
